---- MODULE Spec2Model ----
(***************************************************************************)
(* Model of nefile's resource table: the table scan of                     *)
(* ResourceTable.__init__ (resource_table.py), the memoized, dependency-   *)
(* ordered materialization of ResourceTable.resources / _parse_resources,  *)
(* the lookup find_resource_by_id, and the per-type decoders.              *)
(*                                                                         *)
(* The stream is a byte sequence with a cursor, with the semantics of the  *)
(* read-only mmap that NE.__init__ maps over the file: seek past the end   *)
(* raises ValueError, read is clipped at the end, and an argument that     *)
(* does not fit a C ssize_t raises OverflowError.  Python integers are     *)
(* unbounded; the model keeps every value below 2^31 exact and stands      *)
(* TooLarge for any value of 2^63 or more (the inputs never produce a      *)
(* value in between).                                                      *)
(***************************************************************************)
EXTENDS Integers, Sequences, FiniteSets, TLC

VARIABLES
    input,                  \* the file as it was built: type entries, shift field, cut, and the parsers the caller passes to NE
    stream,                 \* the bytes of the mapped file
    pos,                    \* the stream cursor (stream.tell())
    pc,                     \* where the program is
    exc,                    \* the exception that ended the table scan, "none" otherwise
    resource_table_start_offset,
    alignment_shift_count,
    resource_type_tables,   \* dict type key -> ResourceTypeTable, in insertion order
    _resources,             \* None, or dict type key -> dict id -> object reference
    heap,                   \* the decoded objects; a reference is an index
    round,                  \* the round of the loop of ResourceTable.resources in progress
    call,                   \* the caller's call in progress
    ret,                    \* what the caller's last call returned or raised
    parsed_types,           \* history: the type codes _parse_resources was entered for
    decode_log,             \* history: one event per declaration _parse_resources visited
    lookup_log,             \* history: the lookups the decoders made
    out                     \* what the caller's last direct call (an export, a name resolution) did

vars == <<input, stream, pos, pc, exc, resource_table_start_offset,
          alignment_shift_count, resource_type_tables, _resources, heap, round,
          call, ret, parsed_types, decode_log, lookup_log, out>>

scan_vars == <<resource_table_start_offset, alignment_shift_count, resource_type_tables>>
use_vars == <<_resources, heap, round, call, ret, parsed_types, decode_log, lookup_log, out>>

----------------------------------------------------------------------------
(* Bounds *)

\* the largest number of type-table entries a file of the model holds
MaxTypes == 2

\* the offset of the resource table in the files of the model
TableStart == 2

----------------------------------------------------------------------------
(* Integers and bytes *)

RECURSIVE Pow2(_)
Pow2(n) == IF n = 0 THEN 1 ELSE 2 * Pow2(n - 1)

\* stands for every integer that does not fit a C ssize_t (>= 2^63)
TooLarge == -1

\* v << s on Python integers, v a 16-bit value
ShiftLeft(v, s) ==
    IF v = 0 THEN 0
    ELSE IF s >= 63 THEN TooLarge
    ELSE v * Pow2(s)

\* v & 0x8000 , v & 0x7fff , v & 0x00ff on a 16-bit value
HighBit(v) == v >= 32768
\* the field kept whole
Low15Unmasked(v) == v
Low15(v) == v % 32768
Low8(v) == v % 256

Min(a, b) == IF a < b THEN a ELSE b

----------------------------------------------------------------------------
(* The stream: mmap.seek, mmap.read, and the struct unpackers over it.     *)
(* Every operator takes the cursor and returns the new one.                *)

\* mmap.seek(p): the exception it raises, "none" when it succeeds
SeekExc(p) ==
    IF p = TooLarge THEN "OverflowError"
    ELSE IF p > Len(stream) THEN "ValueError"
    ELSE "none"

\* mmap.read(n) at cursor p: the bytes, clipped at the end of the stream
ReadBytes(p, n) == SubSeq(stream, p + 1, Min(p + n, Len(stream)))

\* struct.unpack over stream.read(k): struct.error on a short read
Short(p, k) == p + k > Len(stream)

Uint8At(p) == stream[p + 1]
Uint16At(p) == stream[p + 1] + 256 * stream[p + 2]
Uint32At(p) == stream[p + 1] + 256 * stream[p + 2]
               + 65536 * stream[p + 3] + 16777216 * stream[p + 4]

----------------------------------------------------------------------------
(* ResourceType and type keys / ids.  A key is an enum member, a plain     *)
(* integer or a string; they never compare equal across kinds.             *)

\* the values of ResourceType in definition order
ResourceType == <<1, 2, 3, 4, 5, 6, 7, 8, 9, 10, 11, 12, 14, 16>>

RT_CURSOR == 1
RT_BITMAP == 2
RT_ICON == 3
RT_STRING == 6
RT_RCDATA == 10
RT_GROUP_CURSOR == 12
RT_GROUP_ICON == 14

has_value(v) == \E i \in 1..Len(ResourceType) : ResourceType[i] = v

EnumKey(n) == [tag |-> "enum", n |-> n, s |-> <<>>]
IntKey(n) == [tag |-> "int", n |-> n, s |-> <<>>]
StrKey(s) == [tag |-> "str", n |-> 0, s |-> s]

----------------------------------------------------------------------------
(* ResourceString: the Pascal string at an absolute offset                 *)

\* buffer.find(b'\x00'): index of the first zero byte, -1 when there is none
RECURSIVE FindZero(_, _)
FindZero(buffer, i) ==
    IF i > Len(buffer) THEN -1
    ELSE IF buffer[i] = 0 THEN i - 1
    ELSE FindZero(buffer, i + 1)

\* bytes.decode('ascii') raises UnicodeDecodeError on a byte >= 0x80
AsciiExc(buffer) ==
    IF \E i \in 1..Len(buffer) : buffer[i] >= 128 THEN "UnicodeDecodeError" ELSE "none"

\* the buffer kept whole
TruncatedNever(buffer, zero_terminator) == buffer

\* buffer[:zero_terminator] when a zero byte was found
Truncated(buffer, zero_terminator) ==
    IF zero_terminator # -1 THEN SubSeq(buffer, 1, zero_terminator) ELSE buffer

\* the decode without the seek back to the saved position
DecodedNameNoSeek(saved_stream_position, after_read, buffer) ==
    IF AsciiExc(buffer) # "none"
    THEN [exc |-> AsciiExc(buffer), string |-> <<>>, pos |-> after_read]
    ELSE [exc |-> "none", string |-> buffer, pos |-> after_read]

\* self.string = buffer.decode('ascii'), then the cursor is restored; the
\* cursor stays after the bytes read when the decode raises
DecodedName(saved_stream_position, after_read, buffer) ==
    IF AsciiExc(buffer) # "none"
    THEN [exc |-> AsciiExc(buffer), string |-> <<>>, pos |-> after_read]
    ELSE [exc |-> "none", string |-> buffer, pos |-> saved_stream_position]

\* the branch string_length > 0, buffer the bytes read
NameOfBuffer(saved_stream_position, offset, buffer) ==
    DecodedName(saved_stream_position, offset + 1 + Len(buffer),
                Truncated(buffer, FindZero(buffer, 1)))

\* ResourceString(stream, offset).string with the cursor at p
ResourceString(p, offset_from_stream_start) ==
    IF SeekExc(offset_from_stream_start) # "none"
    THEN [exc |-> SeekExc(offset_from_stream_start), string |-> <<>>, pos |-> p]
    ELSE IF Short(offset_from_stream_start, 1)
    THEN [exc |-> "struct.error", string |-> <<>>, pos |-> Len(stream)]
    ELSE IF Uint8At(offset_from_stream_start) > 0
    THEN NameOfBuffer(p, offset_from_stream_start,
                      ReadBytes(offset_from_stream_start + 1,
                                Uint8At(offset_from_stream_start)))
    ELSE [exc |-> "none", string |-> <<>>, pos |-> p]

----------------------------------------------------------------------------
(* ResourceDeclaration and ResourceTypeTable: one entry read at the cursor *)

\* the declaration read at p once its id is known
DeclarationWithId(p, shift, id) ==
    [exc |-> "none",
     decl |-> [data_start_offset |-> ShiftLeft(Uint16At(p), shift),
               resource_length_in_bytes |-> ShiftLeft(Uint16At(p + 2), shift),
               flags |-> Uint16At(p + 4),
               id |-> id],
     pos |-> Min(p + 12, Len(stream))]

\* the branch of a named id, name the ResourceString read
DeclarationWithName(p, shift, name) ==
    IF name.exc # "none" THEN [exc |-> name.exc, decl |-> <<>>, pos |-> name.pos]
    ELSE DeclarationWithId(p, shift, StrKey(name.string))

\* ResourceDeclaration(stream, alignment_shift_count, resource_table_start_offset)
ResourceDeclaration(p, shift, table_start) ==
    IF Short(p, 8)
    THEN [exc |-> "struct.error", decl |-> <<>>, pos |-> Len(stream)]
    ELSE IF HighBit(Uint16At(p + 6))
    THEN DeclarationWithId(p, shift, IntKey(Low15(Uint16At(p + 6))))
    ELSE DeclarationWithName(p, shift, ResourceString(p + 8, table_start + Uint16At(p + 6)))

\* the loop "for _ in range(resource_count)" of ResourceTypeTable.__init__;
\* AppendDeclaration is the end of a round, d the declaration it read
RECURSIVE ReadDeclarations(_, _, _, _, _)
RECURSIVE AppendDeclaration(_, _, _, _, _)
ReadDeclarations(p, count, shift, table_start, acc) ==
    IF count = 0 THEN [exc |-> "none", decls |-> acc, pos |-> p]
    ELSE AppendDeclaration(count, shift, table_start, acc,
                           ResourceDeclaration(p, shift, table_start))
AppendDeclaration(count, shift, table_start, acc, d) ==
    IF d.exc # "none" THEN [exc |-> d.exc, decls |-> acc, pos |-> d.pos]
    ELSE ReadDeclarations(d.pos, count - 1, shift, table_start, Append(acc, d.decl))

NoTable == [type_code |-> IntKey(0), resource_declarations |-> <<>>, was_parsed |-> FALSE]

\* the type code of an integer type field: the enum member when there is one
IntegerTypeCode(integer_type_code) ==
    IF has_value(integer_type_code) THEN EnumKey(integer_type_code)
    ELSE IntKey(integer_type_code)

\* the end of ResourceTypeTable.__init__, ds the declarations read
TypeTableOf(type_code, ds) ==
    [exc |-> ds.exc, is_end_flag |-> FALSE, pos |-> ds.pos,
     table |-> [type_code |-> type_code, resource_declarations |-> ds.decls,
                was_parsed |-> FALSE]]

\* ResourceTypeTable.__init__ from the resource count on, the cursor at p
TypeTableWithCode(p, shift, table_start, type_code) ==
    IF Short(p, 2)
    THEN [exc |-> "struct.error", is_end_flag |-> FALSE, table |-> NoTable,
          pos |-> Len(stream)]
    ELSE TypeTableOf(type_code,
                     ReadDeclarations(Min(p + 6, Len(stream)), Uint16At(p),
                                      shift, table_start, <<>>))

\* the branch of a named type, name the ResourceString read
TypeTableWithName(p, shift, table_start, name) ==
    IF name.exc # "none"
    THEN [exc |-> name.exc, is_end_flag |-> FALSE, table |-> NoTable, pos |-> name.pos]
    ELSE TypeTableWithCode(p, shift, table_start, StrKey(name.string))

\* ResourceTypeTable(stream, alignment_shift_count, resource_table_start_offset)
ResourceTypeTable(p, shift, table_start) ==
    IF Short(p, 2)
    THEN [exc |-> "struct.error", is_end_flag |-> FALSE, table |-> NoTable,
          pos |-> Len(stream)]
    ELSE IF Uint16At(p) = 0
    THEN [exc |-> "none", is_end_flag |-> TRUE, table |-> NoTable, pos |-> p + 2]
    ELSE IF HighBit(Uint16At(p))
    THEN TypeTableWithCode(p + 2, shift, table_start, IntegerTypeCode(Low15(Uint16At(p))))
    ELSE TypeTableWithName(p + 2, shift, table_start,
                           ResourceString(p + 2, table_start + Uint16At(p)))

----------------------------------------------------------------------------
(* Python dicts: a sequence of [key, value] in insertion order             *)

DictHas(d, key) == \E i \in 1..Len(d) : d[i].key = key
DictIndex(d, key) == CHOOSE i \in 1..Len(d) : d[i].key = key
DictGet(d, key) == d[DictIndex(d, key)].value
\* dict.update({key: value}): a present key keeps its place and takes the value
DictUpdate(d, key, value) ==
    IF DictHas(d, key)
    THEN [d EXCEPT ![DictIndex(d, key)] = [key |-> key, value |-> value]]
    ELSE Append(d, [key |-> key, value |-> value])

----------------------------------------------------------------------------
(* Decoded resources.  Objects live in a heap (a sequence) and are held  *)
(* by reference (their index), as a group and the cache share the icons and   *)
(* cursors.  An attribute a class does not set is "unset".                 *)

NoHeader == [header_length |-> 0, width |-> 0, height |-> 0, color_planes |-> 0,
             bits_per_pixel |-> 0, compression_method |-> 0, total_palette_colors |-> 0]

Blank == [class |-> "", resource_id |-> [tag |-> "unset", n |-> 0, s |-> <<>>], data |-> <<>>,
          bitmap_header |-> NoHeader, has_bitmap_core_header |-> "unset",
          is_in_group |-> "unset", x_hotspot |-> 0, y_hotspot |-> 0,
          directory_type |-> 0, directory_entries |-> <<>>, members |-> <<>>,
          strings |-> <<>>]

\* what a decoder returns: the exception it raised or the object it built, the
\* cursor it leaves, the heap (a group decoder flags objects of it) and the
\* lookups it made
Raised(e, p, hp, lookups) ==
    [exc |-> e, obj |-> Blank, pos |-> p, heap |-> hp, lookups |-> lookups]
Built(o, p, hp, lookups) ==
    [exc |-> "none", obj |-> o, pos |-> p, heap |-> hp, lookups |-> lookups]

\* ApplicationDefinedData.__init__
ApplicationDefinedData(p, decl, cache, hp) ==
    IF decl.resource_length_in_bytes = TooLarge
    THEN Raised("OverflowError", p, hp, <<>>)
    ELSE LET data == ReadBytes(p, decl.resource_length_in_bytes)
         IN Built([Blank EXCEPT !.class = "ApplicationDefinedData", !.data = data],
                  p + Len(data), hp, <<>>)

\* BitmapInfoHeader.__init__ (the bytes of the model keep bit 31 of every
\* 32-bit field clear, so signed and unsigned fields read alike)
BitmapInfoHeader(p) ==
    IF Short(p, 4) THEN [exc |-> "struct.error", header |-> NoHeader, pos |-> Len(stream)]
    ELSE IF Uint32At(p) # 40 THEN [exc |-> "ValueError", header |-> NoHeader, pos |-> p + 4]
    ELSE IF Short(p, 40) THEN [exc |-> "struct.error", header |-> NoHeader, pos |-> Len(stream)]
    ELSE [exc |-> "none", pos |-> p + 40,
          header |-> [header_length |-> Uint32At(p), width |-> Uint32At(p + 4),
                      height |-> Uint32At(p + 8), color_planes |-> Uint16At(p + 12),
                      bits_per_pixel |-> Uint16At(p + 14),
                      compression_method |-> Uint32At(p + 16),
                      total_palette_colors |-> Uint32At(p + 32)]]

\* BitmapCoreHeader.__init__
BitmapCoreHeader(p) ==
    IF Short(p, 4) THEN [exc |-> "struct.error", header |-> NoHeader, pos |-> Len(stream)]
    ELSE IF Uint32At(p) # 12 THEN [exc |-> "ValueError", header |-> NoHeader, pos |-> p + 4]
    ELSE IF Short(p, 12) THEN [exc |-> "struct.error", header |-> NoHeader, pos |-> Len(stream)]
    ELSE [exc |-> "none", pos |-> p + 12,
          header |-> [header_length |-> Uint32At(p), width |-> Uint16At(p + 4),
                      height |-> Uint16At(p + 6), color_planes |-> Uint16At(p + 8),
                      bits_per_pixel |-> Uint16At(p + 10),
                      compression_method |-> 0, total_palette_colors |-> 0]]

\* Bitmap.__init__ once a header was read: the data is read from the start
\* of the header
BitmapWithHeader(base, start, decl, hp, header, is_core) ==
    IF decl.resource_length_in_bytes = TooLarge
    THEN Raised("OverflowError", start, hp, <<>>)
    ELSE Built([base EXCEPT !.resource_id = decl.id, !.bitmap_header = header,
                  !.has_bitmap_core_header = is_core,
                  !.data = ReadBytes(start, decl.resource_length_in_bytes)],
               start + Len(ReadBytes(start, decl.resource_length_in_bytes)), hp, <<>>)

\* the except branch of Bitmap.__init__, core the BitmapCoreHeader read
BitmapWithCore(base, start, decl, hp, core) ==
    IF core.exc # "none" THEN Raised(core.exc, core.pos, hp, <<>>)
    ELSE BitmapWithHeader(base, start, decl, hp, core.header, "True")

\* the try statement without its except branch
BitmapWithInfoOnly(base, start, decl, hp, info) ==
    IF info.exc = "none"
    THEN BitmapWithHeader(base, start, decl, hp, info.header, "False")
    ELSE Raised(info.exc, info.pos, hp, <<>>)

\* the try statement of Bitmap.__init__, info the BitmapInfoHeader read
BitmapWithInfo(base, start, decl, hp, info) ==
    IF info.exc = "none"
    THEN BitmapWithHeader(base, start, decl, hp, info.header, "False")
    ELSE BitmapWithCore(base, start, decl, hp, BitmapCoreHeader(start))

\* Bitmap.__init__ on the object base (Cursor.__init__ has set its own fields)
BitmapInit(base, p, decl, hp) ==
    BitmapWithInfo(base, p, decl, hp, BitmapInfoHeader(p))

Bitmap(p, decl, cache, hp) ==
    BitmapInit([Blank EXCEPT !.class = "Bitmap"], p, decl, hp)

\* a cursor read as a bitmap from its first byte
CursorWithoutHotspot(p, decl, cache, hp) ==
    BitmapInit([Blank EXCEPT !.class = "Cursor", !.is_in_group = "False"], p, decl, hp)

\* Cursor.__init__
Cursor(p, decl, cache, hp) ==
    IF Short(p, 4) THEN Raised("struct.error", Len(stream), hp, <<>>)
    ELSE BitmapInit([Blank EXCEPT !.class = "Cursor", !.is_in_group = "False",
                       !.x_hotspot = Uint16At(p), !.y_hotspot = Uint16At(p + 2)],
                    p + 4, decl, hp)

\* Icon.__init__ once the BitmapInfoHeader info was read
IconWithInfo(resource_start, decl, hp, info) ==
    IF info.exc # "none" THEN Raised(info.exc, info.pos, hp, <<>>)
    ELSE IF decl.resource_length_in_bytes = TooLarge
    THEN Raised("OverflowError", resource_start, hp, <<>>)
    ELSE Built([Blank EXCEPT !.class = "Icon", !.resource_id = decl.id,
                  !.bitmap_header = info.header,
                  !.data = ReadBytes(resource_start, decl.resource_length_in_bytes)],
               resource_start
                 + Len(ReadBytes(resource_start, decl.resource_length_in_bytes)),
               hp, <<>>)

\* Icon.__init__
Icon(p, decl, cache, hp) == IconWithInfo(p, decl, hp, BitmapInfoHeader(p))

\* StringTable.__init__: the 16 slots from slot index on; an empty slot is "None"
\* the slots with the empty ones left out of the list
RECURSIVE StringSlotsOmitting(_, _, _)
StringSlotsOmitting(p, index, acc) ==
    IF index = 16 THEN [exc |-> "none", strings |-> acc, pos |-> p]
    ELSE IF Short(p, 1) THEN [exc |-> "struct.error", strings |-> acc, pos |-> Len(stream)]
    ELSE IF Uint8At(p) = 0 THEN StringSlotsOmitting(p + 1, index + 1, acc)
    ELSE StringSlotsOmitting(p + 1 + Len(ReadBytes(p + 1, Uint8At(p))), index + 1,
                             Append(acc, [filled |-> TRUE,
                                          text |-> ReadBytes(p + 1, Uint8At(p))]))

\* the loop of StringTable.__init__ from slot index on: acc the strings
\* appended so far, a slot without a string being None (filled FALSE)
RECURSIVE StringSlots(_, _, _)
StringSlots(p, index, acc) ==
    IF index = 16 THEN [exc |-> "none", strings |-> acc, pos |-> p]
    ELSE IF Short(p, 1) THEN [exc |-> "struct.error", strings |-> acc, pos |-> Len(stream)]
    ELSE LET string_length == Uint8At(p)
             string == ReadBytes(p + 1, string_length)
         IN StringSlots(p + 1 + Len(string), index + 1,
                        Append(acc, IF string_length > 0
                                    THEN [filled |-> TRUE, text |-> string]
                                    ELSE [filled |-> FALSE, text |-> <<>>]))

StringTable(p, decl, cache, hp) ==
    LET r == StringSlots(p, 0, <<>>)
    IN IF r.exc # "none" THEN Raised(r.exc, r.pos, hp, <<>>)
       ELSE Built([Blank EXCEPT !.class = "StringTable", !.strings = r.strings],
                  r.pos, hp, <<>>)

----------------------------------------------------------------------------
(* find_resource_by_id over the cache, and the group decoders that use it  *)

\* the two messages of the ValueError of find_resource_by_id
NoSuchType == "Could not find resource type"
NoSuchId == "Could not find resource of type with ID"

\* find_resource_by_id raising the same error for a missing type and a missing id
FindInCacheOneError(cache, resource_id, type_id) ==
    IF ~DictHas(cache, type_id) \/ ~DictHas(DictGet(cache, type_id), resource_id)
    THEN [exc |-> "ValueError", message |-> NoSuchId, ref |-> 0]
    ELSE [exc |-> "none", message |-> "",
          ref |-> DictGet(DictGet(cache, type_id), resource_id)]

\* find_resource_by_id(resource_id, type_id) once self.resources has returned cache
FindInCache(cache, resource_id, type_id) ==
    IF ~DictHas(cache, type_id)
    THEN [exc |-> "ValueError", message |-> NoSuchType, ref |-> 0]
    ELSE LET resource_type_dictionary == DictGet(cache, type_id)
         IN IF ~DictHas(resource_type_dictionary, resource_id)
            THEN [exc |-> "ValueError", message |-> NoSuchId, ref |-> 0]
            ELSE [exc |-> "none", message |-> "",
                  ref |-> DictGet(resource_type_dictionary, resource_id)]

Lookup(resource_id, type_id, found) ==
    [resource_id |-> resource_id, type_id |-> type_id, found |-> found]

\* GroupIcon.__init__: the loop over the directory from entry index on; each
\* round reads one GRPICONDIRENTRY, then looks its icon up (GroupIconMember,
\* referenced_icon what find_resource_by_id gave)
RECURSIVE GroupIconEntries(_, _, _, _, _, _)
RECURSIVE GroupIconMember(_, _, _, _, _, _, _, _)
GroupIconEntries(p, index, icon_count, cache, icons, lookups) ==
    IF index = icon_count
    THEN [exc |-> "none", pos |-> p, icons |-> icons, lookups |-> lookups]
    ELSE IF Short(p, 14)
    THEN [exc |-> "struct.error", pos |-> Len(stream), icons |-> icons, lookups |-> lookups]
    ELSE GroupIconMember(p + 14, index, icon_count, cache, icons, lookups,
                         IntKey(Uint16At(p + 12)),
                         FindInCache(cache, IntKey(Uint16At(p + 12)), EnumKey(RT_ICON)))
GroupIconMember(p, index, icon_count, cache, icons, lookups, icon_resource_id, referenced_icon) ==
    IF referenced_icon.exc # "none"
    THEN [exc |-> referenced_icon.exc, pos |-> p, icons |-> icons,
          lookups |-> Append(lookups, Lookup(icon_resource_id, EnumKey(RT_ICON), FALSE))]
    ELSE GroupIconEntries(p, index + 1, icon_count, cache,
                          DictUpdate(icons, icon_resource_id, referenced_icon.ref),
                          Append(lookups, Lookup(icon_resource_id, EnumKey(RT_ICON), TRUE)))

\* the end of GroupIcon.__init__, r what the loop gave
GroupIconOf(decl, hp, r) ==
    IF r.exc # "none" THEN Raised(r.exc, r.pos, hp, r.lookups)
    ELSE Built([Blank EXCEPT !.class = "GroupIcon", !.resource_id = decl.id,
                  !.members = r.icons],
               r.pos, hp, r.lookups)

\* GroupIcon.__init__
GroupIcon(p, decl, cache, hp) ==
    IF Short(p, 2) THEN Raised("struct.error", Len(stream), hp, <<>>)
    ELSE IF Uint16At(p) # 0 THEN Raised("AssertionError", p + 2, hp, <<>>)
    ELSE IF Short(p, 6) THEN Raised("struct.error", Len(stream), hp, <<>>)
    ELSE GroupIconOf(decl, hp,
                     GroupIconEntries(p + 6, 0, Uint16At(p + 4), cache, <<>>, <<>>))

\* CursorDirectory.__init__: the directory entries from entry index on
RECURSIVE CursorDirectoryEntries(_, _, _, _)
CursorDirectoryEntries(p, index, cursor_count, acc) ==
    IF index = cursor_count THEN [exc |-> "none", pos |-> p, directory_entries |-> acc]
    ELSE IF Short(p, 14)
    THEN [exc |-> "struct.error", pos |-> Len(stream), directory_entries |-> acc]
    ELSE CursorDirectoryEntries(p + 14, index + 1, cursor_count,
            Append(acc, [width |-> Uint16At(p), height |-> Uint16At(p + 2) \div 2,
                         color_planes |-> Uint16At(p + 4),
                         bits_per_pixel |-> Uint16At(p + 6),
                         cursor_size_in_bytes |-> Uint32At(p + 8),
                         cursor_resource_id |-> Uint16At(p + 12)]))

\* GroupCursor.__init__: the loop over the directory entries read, from entry i
\* on; each round looks a cursor up and flags it (GroupCursorMember,
\* referenced_cursor what find_resource_by_id gave)
RECURSIVE GroupCursorMembers(_, _, _, _, _, _)
RECURSIVE GroupCursorMember(_, _, _, _, _, _, _, _)
RECURSIVE GroupCursorMemberUnflagged(_, _, _, _, _, _, _, _)
GroupCursorMembers(directory_entries, i, cache, hp, cursors, lookups) ==
    IF i > Len(directory_entries)
    THEN [exc |-> "none", heap |-> hp, cursors |-> cursors, lookups |-> lookups]
    ELSE GroupCursorMember(directory_entries, i, cache, hp, cursors, lookups,
            IntKey(directory_entries[i].cursor_resource_id),
            FindInCache(cache, IntKey(directory_entries[i].cursor_resource_id),
                        EnumKey(RT_CURSOR)))
\* the round that leaves the cursor found as it is
GroupCursorMemberUnflagged(directory_entries, i, cache, hp, cursors, lookups, cursor_resource_id, referenced_cursor) ==
    IF referenced_cursor.exc # "none"
    THEN [exc |-> referenced_cursor.exc, heap |-> hp, cursors |-> cursors,
          lookups |-> Append(lookups, Lookup(cursor_resource_id, EnumKey(RT_CURSOR), FALSE))]
    ELSE GroupCursorMembers(directory_entries, i + 1, cache, hp,
            DictUpdate(cursors, cursor_resource_id, referenced_cursor.ref),
            Append(lookups, Lookup(cursor_resource_id, EnumKey(RT_CURSOR), TRUE)))
GroupCursorMember(directory_entries, i, cache, hp, cursors, lookups, cursor_resource_id, referenced_cursor) ==
    IF referenced_cursor.exc # "none"
    THEN [exc |-> referenced_cursor.exc, heap |-> hp, cursors |-> cursors,
          lookups |-> Append(lookups, Lookup(cursor_resource_id, EnumKey(RT_CURSOR), FALSE))]
    ELSE GroupCursorMembers(directory_entries, i + 1, cache,
            [hp EXCEPT ![referenced_cursor.ref].is_in_group = "True"],
            DictUpdate(cursors, cursor_resource_id, referenced_cursor.ref),
            Append(lookups, Lookup(cursor_resource_id, EnumKey(RT_CURSOR), TRUE)))

\* the end of GroupCursor.__init__, type and dir the directory read and r what
\* the loop gave
GroupCursorOf(decl, type, dir, r) ==
    IF r.exc # "none" THEN Raised(r.exc, dir.pos, r.heap, r.lookups)
    ELSE Built([Blank EXCEPT !.class = "GroupCursor", !.resource_id = decl.id,
                  !.directory_type = type,
                  !.directory_entries = dir.directory_entries,
                  !.members = r.cursors],
               dir.pos, r.heap, r.lookups)

\* GroupCursor.__init__ from the directory read on
GroupCursorWithDirectory(decl, cache, hp, type, dir) ==
    IF dir.exc # "none" THEN Raised(dir.exc, dir.pos, hp, <<>>)
    ELSE GroupCursorOf(decl, type, dir,
                       GroupCursorMembers(dir.directory_entries, 1, cache, hp, <<>>, <<>>))

\* GroupCursor.__init__
GroupCursor(p, decl, cache, hp) ==
    IF Short(p, 2) THEN Raised("struct.error", Len(stream), hp, <<>>)
    ELSE IF Uint16At(p) # 0 THEN Raised("ValueError", p + 2, hp, <<>>)
    ELSE IF Short(p, 6) THEN Raised("struct.error", Len(stream), hp, <<>>)
    ELSE GroupCursorWithDirectory(decl, cache, hp, Uint16At(p + 2),
            CursorDirectoryEntries(p + 6, 0, Uint16At(p + 4), <<>>))

----------------------------------------------------------------------------
(* _parse_resources                                                        *)

\* self._resources: None, or the dict
None == [is_none |-> TRUE, dict |-> <<>>]
Dict(d) == [is_none |-> FALSE, dict |-> d]

\* dict.update(other)
RECURSIVE Update(_, _)
Update(d, other) ==
    IF other = <<>> THEN d
    ELSE Update(DictUpdate(d, Head(other).key, Head(other).value), Tail(other))

\* the dicts a caller passes as user_defined_resource_parsers, the parsers
\* being classes of the library: a parser for a built-in type and one for an
\* application-defined type; one under the number of a built-in type, not
\* the member of ResourceType; one for a well-known type without a built-in
\* parser and one for a named type
UserParsers == {
    << [key |-> EnumKey(RT_ICON), value |-> "ApplicationDefinedData"],
       [key |-> IntKey(100), value |-> "Icon"] >>,
    << [key |-> IntKey(RT_ICON), value |-> "Bitmap"] >>,
    << [key |-> EnumKey(RT_RCDATA), value |-> "Bitmap"],
       [key |-> StrKey(<<65, 66>>), value |-> "StringTable"] >>
}

\* self.resource_parsers without the update
resource_parsers_built_in ==
    << [key |-> EnumKey(RT_ICON), value |-> "Icon"],
       [key |-> EnumKey(RT_BITMAP), value |-> "Bitmap"],
       [key |-> EnumKey(RT_CURSOR), value |-> "Cursor"],
       [key |-> EnumKey(RT_GROUP_ICON), value |-> "GroupIcon"],
       [key |-> EnumKey(RT_GROUP_CURSOR), value |-> "GroupCursor"],
       [key |-> EnumKey(RT_STRING), value |-> "StringTable"] >>

\* self.resource_parsers: the classes registered for the built-in types,
\* updated with the caller's
resource_parsers ==
    Update(<< [key |-> EnumKey(RT_ICON), value |-> "Icon"],
              [key |-> EnumKey(RT_BITMAP), value |-> "Bitmap"],
              [key |-> EnumKey(RT_CURSOR), value |-> "Cursor"],
              [key |-> EnumKey(RT_GROUP_ICON), value |-> "GroupIcon"],
              [key |-> EnumKey(RT_GROUP_CURSOR), value |-> "GroupCursor"],
              [key |-> EnumKey(RT_STRING), value |-> "StringTable"] >>,
           input.user_defined_resource_parsers)

\* self.resource_parsers.get(type_code, ApplicationDefinedData)
ParserFor(type_code) ==
    IF DictHas(resource_parsers, type_code) THEN DictGet(resource_parsers, type_code)
    ELSE "ApplicationDefinedData"

\* defined_resource_parser(self.stream, resource_declaration, self)
Construct(class, p, decl, cache, objects) ==
    CASE class = "Icon" -> Icon(p, decl, cache, objects)
      [] class = "Bitmap" -> Bitmap(p, decl, cache, objects)
      [] class = "Cursor" -> Cursor(p, decl, cache, objects)
      [] class = "GroupIcon" -> GroupIcon(p, decl, cache, objects)
      [] class = "GroupCursor" -> GroupCursor(p, decl, cache, objects)
      [] class = "StringTable" -> StringTable(p, decl, cache, objects)
      [] OTHER -> ApplicationDefinedData(p, decl, cache, objects)

\* the event the history keeps of a declaration visited
Event(type_code, decl, seek, parser, raw, stored) ==
    [type_code |-> type_code, id |-> decl.id,
     data_start_offset |-> decl.data_start_offset,
     resource_length_in_bytes |-> decl.resource_length_in_bytes,
     class |-> ParserFor(type_code), seek |-> seek,
     parser |-> parser, raw |-> raw, stored |-> stored]

\* the end of a round that seeks back to where the cursor was before it
StoreRestoringCursor(type_code, decl, st, parser, raw, lookups, objects, resource, after) ==
    IF resource = 0
    THEN [st EXCEPT !.exc = "UnboundLocalError", !.heap = objects,
                    !.log = Append(st.log, Event(type_code, decl, "none", parser, raw, 0)),
                    !.lookups = st.lookups \o lookups]
    ELSE [st EXCEPT !.resources = DictUpdate(st.resources, decl.id, resource),
                    !.resource = resource, !.heap = objects,
                    !.log = Append(st.log,
                                   Event(type_code, decl, "none", parser, raw, resource)),
                    !.lookups = st.lookups \o lookups]

\* resources.update({resource_declaration.id: resource}) after the try
\* statement: resource is the reference the local name is bound to, 0 while
\* it is unbound; objects the heap, after the cursor
Store(type_code, decl, st, parser, raw, lookups, objects, resource, after) ==
    IF resource = 0
    THEN [st EXCEPT !.exc = "UnboundLocalError", !.heap = objects, !.pos = after,
                    !.log = Append(st.log, Event(type_code, decl, "none", parser, raw, 0)),
                    !.lookups = st.lookups \o lookups]
    ELSE [st EXCEPT !.resources = DictUpdate(st.resources, decl.id, resource),
                    !.resource = resource, !.heap = objects, !.pos = after,
                    !.log = Append(st.log,
                                   Event(type_code, decl, "none", parser, raw, resource)),
                    !.lookups = st.lookups \o lookups]

\* the except branch once the raw data was read, second what
\* ApplicationDefinedData gave: when it raised too, resource keeps its binding
AfterRawData(type_code, decl, st, first, second) ==
    IF second.exc = "none"
    THEN Store(type_code, decl, st, first.exc, "none", first.lookups,
               Append(first.heap, second.obj), Len(first.heap) + 1, second.pos)
    ELSE Store(type_code, decl, st, first.exc, second.exc, first.lookups,
               first.heap, st.resource, decl.data_start_offset)

\* the except branch reading the raw data without the seek back to the data
AfterParserNoRewind(type_code, decl, cache, st, first) ==
    IF first.exc = "none"
    THEN Store(type_code, decl, st, "none", "not run", first.lookups,
               Append(first.heap, first.obj), Len(first.heap) + 1, first.pos)
    ELSE AfterRawData(type_code, decl, st, first,
                      ApplicationDefinedData(first.pos, decl, cache, first.heap))

\* the try statement once the registered parser has run, first what it gave
AfterParser(type_code, decl, cache, st, first) ==
    IF first.exc = "none"
    THEN Store(type_code, decl, st, "none", "not run", first.lookups,
               Append(first.heap, first.obj), Len(first.heap) + 1, first.pos)
    ELSE AfterRawData(type_code, decl, st, first,
                      ApplicationDefinedData(decl.data_start_offset, decl, cache,
                                             first.heap))

\* one round of the loop over the declarations: st holds the locals
\* (resources, and resource), the heap, the cursor and the history; st.exc
\* is the exception that escapes the round
ParseDeclaration(type_code, decl, cache, st) ==
    IF SeekExc(decl.data_start_offset) # "none"
    THEN [st EXCEPT !.exc = SeekExc(decl.data_start_offset),
                    !.log = Append(st.log,
                                   Event(type_code, decl, SeekExc(decl.data_start_offset),
                                         "not run", "not run", 0))]
    ELSE AfterParser(type_code, decl, cache, st,
                     Construct(ParserFor(type_code), decl.data_start_offset, decl,
                               cache, st.heap))

RECURSIVE ParseDeclarations(_, _, _, _, _)
ParseDeclarations(type_code, decls, i, cache, st) ==
    IF i > Len(decls) \/ st.exc # "none" THEN st
    ELSE ParseDeclarations(type_code, decls, i + 1, cache,
                           ParseDeclaration(type_code, decls[i], cache, st))

\* self._parse_resources(resource_type_table)
ParseResources(resource_type_table, cache, objects, p) ==
    ParseDeclarations(resource_type_table.type_code,
                      resource_type_table.resource_declarations, 1, cache,
                      [exc |-> "none", resources |-> <<>>, resource |-> 0,
                       heap |-> objects, pos |-> p, log |-> <<>>, lookups |-> <<>>])

\* the caller's call in progress, and what a call returned or raised
NoCall == [op |-> "none", resource_id |-> IntKey(0), type_id |-> IntKey(0)]
\* kind: "resources" (the dict returned), "resource" (find returned ref),
\* "raise" (find raised exc with message), "escape" (exc left the property,
\* or export_resources) or "exported" (export_resources returned, value the
\* files written)
\* cached: the property returned the cached dict without parsing
NoReturn == [kind |-> "none", call |-> NoCall, cached |-> FALSE, exc |-> "none",
             message |-> "", ref |-> 0, value |-> <<>>]
Escape(c, e) == [NoReturn EXCEPT !.kind = "escape", !.call = c, !.exc = e]

----------------------------------------------------------------------------
(* The files of the model.  A file is a 2-byte prefix, the resource table, *)
(* a pool of Pascal strings, four payload blobs at 16-byte boundaries and, *)
(* in the files with a drawn bitmap, that bitmap.                          *)
(* Offsets and lengths of the menu are in 16-byte units, written to the    *)
(* table scaled for the file's alignment shift.                            *)

LE16(v) == <<v % 256, v \div 256>>
LE32(v) == <<v % 256, (v \div 256) % 256, (v \div 65536) % 256, v \div 16777216>>

RECURSIVE Flatten(_)
Flatten(ss) == IF ss = <<>> THEN <<>> ELSE Head(ss) \o Flatten(Tail(ss))

Fill(n, b) == [i \in 1..n |-> b]

TableRoom == 2 + MaxTypes * 32 + 2
PoolStart == TableStart + TableRoom
\* raw name fields (offsets from the table start) of the pool's strings
NameAB == PoolStart - TableStart
NameEmpty == NameAB + 3
NameNul == NameAB + 4
NameLast == NameAB + 8

\* "AB", "", "C\0D" and a last string that is "E" or, in a bad pool, a byte >= 0x80
Pool(bad) == <<2, 65, 66>> \o <<0>> \o <<3, 67, 0, 68>> \o <<1, IF bad THEN 200 ELSE 69>>
PoolLen == Len(Pool(FALSE))

\* the payload blobs start at the first 16-byte boundary after the pool
DataBaseU == (PoolStart + PoolLen + 15) \div 16
DataBase == 16 * DataBaseU

\* a 40-byte BITMAPINFOHEADER and 8 bytes of pixels
IconBlob ==
    LE32(40) \o LE32(16) \o LE32(32) \o LE16(1) \o LE16(4) \o LE32(0) \o LE32(0)
    \o LE32(0) \o LE32(0) \o LE32(0) \o LE32(0) \o <<81, 82, 83, 84, 85, 86, 87, 88>>
\* a hotspot pair and a 12-byte BITMAPCOREHEADER
CursorBlob == LE16(3) \o LE16(5) \o LE32(12) \o LE16(16) \o LE16(32) \o LE16(1) \o LE16(1)
\* GRPICONDIR with two GRPICONDIRENTRY, referencing icons 1 and 2
GroupIconBlob ==
    LE16(0) \o LE16(1) \o LE16(2)
    \o <<16, 16>> \o LE16(16) \o LE16(1) \o LE16(4) \o LE32(48) \o LE16(1)
    \o <<16, 16>> \o LE16(16) \o LE16(1) \o LE16(4) \o LE32(16) \o LE16(2)
    \o Fill(14, 90)
\* cursor directory with two entries, referencing cursors 1 and 2
GroupCursorBlob ==
    LE16(0) \o LE16(2) \o LE16(2)
    \o LE16(16) \o LE16(64) \o LE16(1) \o LE16(1) \o LE32(16) \o LE16(1)
    \o LE16(16) \o LE16(64) \o LE16(1) \o LE16(1) \o LE32(16) \o LE16(2)
    \o Fill(14, 91)

IconU == DataBaseU
CursorU == DataBaseU + 3
GroupIconU == DataBaseU + 4
GroupCursorU == DataBaseU + 7
FileLen == DataBase + 160

Integer(n) == 32768 + n

\* the type entries a file is made of: raw type field and declarations
\* [uoff, ulen: 16-byte units | roff, rlen: raw fields written as they are]
Scaled(uoff, ulen, rawid) == [scaled |-> TRUE, off |-> uoff, len |-> ulen, rawid |-> rawid]
Unscaled(roff, rlen, rawid) == [scaled |-> FALSE, off |-> roff, len |-> rlen, rawid |-> rawid]

Menu == <<
    [rawtype |-> Integer(RT_ICON),
     decls |-> <<Scaled(IconU, 3, Integer(1))>>],
    [rawtype |-> Integer(RT_ICON),
     decls |-> <<Scaled(IconU, 3, Integer(1)), Scaled(CursorU, 1, Integer(2))>>],
    [rawtype |-> Integer(RT_GROUP_ICON),
     decls |-> <<Scaled(GroupIconU, 3, Integer(1))>>],
    [rawtype |-> Integer(RT_CURSOR),
     decls |-> <<Scaled(CursorU, 1, Integer(1)), Scaled(CursorU, 1, Integer(2))>>],
    [rawtype |-> Integer(RT_GROUP_CURSOR),
     decls |-> <<Scaled(GroupCursorU, 3, Integer(1))>>],
    [rawtype |-> Integer(RT_RCDATA),
     decls |-> <<Unscaled(0, 0, Integer(1)), Unscaled(0, 1, Integer(2))>>],
    [rawtype |-> Integer(100),
     decls |-> <<Scaled(IconU, 1, NameNul)>>],
    [rawtype |-> NameAB,
     decls |-> <<Scaled(GroupIconU, 1, Integer(5)), Unscaled(20, 1, NameLast)>>]
>>

\* the variants of a file: the raw shift field, where the stream is cut
\* ("before": right before the sentinel, "inside": 1 byte earlier), the pool
Variants == {
    [shift |-> 0,     cut |-> "none",   bad |-> FALSE],
    [shift |-> 31492, cut |-> "none",   bad |-> FALSE],   \* 0x7B04
    [shift |-> 63,    cut |-> "none",   bad |-> TRUE],
    [shift |-> 0,     cut |-> "before", bad |-> FALSE],
    [shift |-> 0,     cut |-> "inside", bad |-> FALSE]
}

\* one more blob, drawn: a hotspot pair, a device-independent bitmap header
\* of one of three shapes (40-byte, 12-byte, neither), pixels up to 48 bytes
\* from the header's start, and 6 bytes that belong to no resource; or
\* ("twice") a cursor directory whose two entries both reference cursor 1
NoDib == [shape |-> "none", width |-> 0, bits_per_pixel |-> 0, compression_method |-> 0,
          total_palette_colors |-> 0]
Dibs == {[shape |-> s, width |-> w, bits_per_pixel |-> b, compression_method |-> c,
          total_palette_colors |-> n] :
            s \in {"info", "core", "other"}, w \in {16, 300}, b \in {1, 8, 24, 32},
            c \in {0, 3, 6}, n \in {0, 16}}
DibBlob(dib) ==
    LET header ==
            IF dib.shape = "info"
            THEN LE32(40) \o LE32(dib.width) \o LE32(32) \o LE16(1)
                 \o LE16(dib.bits_per_pixel) \o LE32(dib.compression_method) \o LE32(0)
                 \o LE32(0) \o LE32(0) \o LE32(dib.total_palette_colors) \o LE32(0)
            ELSE IF dib.shape = "core"
            THEN LE32(12) \o LE16(dib.width) \o LE16(32) \o LE16(1)
                 \o LE16(dib.bits_per_pixel)
            ELSE LE32(16) \o Fill(12, 0)
    IN IF dib.shape = "none" THEN <<>>
       ELSE IF dib.shape = "twice"
       THEN LE16(0) \o LE16(2) \o LE16(2)
            \o LE16(16) \o LE16(64) \o LE16(1) \o LE16(1) \o LE32(16) \o LE16(1)
            \o LE16(16) \o LE16(64) \o LE16(1) \o LE16(1) \o LE32(16) \o LE16(1)
       ELSE LE16(3) \o LE16(5) \o header \o Fill(48 - Len(header), 112) \o Fill(6, 113)

\* a string table, drawn: the slots of filled hold a string, of 2 bytes in
\* the even slots and 3 in the odd ones, the others a zero length byte; cut
\* bytes are missing at the end, which is the end of the file
NoStrings == [present |-> FALSE, filled |-> {}, cut |-> 0]
StringBlocks == {[present |-> TRUE, filled |-> f, cut |-> c] :
                    f \in SUBSET {0, 5, 14, 15}, c \in {0, 1, 3, 4}}
StringBlock(strings) ==
    LET slot(k) == IF k \in strings.filled
                   THEN IF k % 2 = 0 THEN <<2, 200, 0>> ELSE <<3, 200, 0, 65 + k>>
                   ELSE <<0>>
        whole == Flatten([k \in 1..16 |-> slot(k - 1)])
    IN IF strings.present THEN SubSeq(whole, 1, Len(whole) - strings.cut) ELSE <<>>

\* more type entries: the drawn blob as a bitmap, an icon, a cursor; two
\* icons of 48 and 64 bytes at the icon blob; the drawn blob as a
\* group-cursor; the drawn string table; the group-icon blob as a bitmap;
\* the first two bytes of the file as two resources of one id; one cursor
DibMenu == <<
    [rawtype |-> Integer(RT_BITMAP),
     decls |-> <<Unscaled(FileLen + 4, 48, Integer(1))>>],
    [rawtype |-> Integer(RT_ICON),
     decls |-> <<Unscaled(FileLen + 4, 48, Integer(1))>>],
    [rawtype |-> Integer(RT_CURSOR),
     decls |-> <<Unscaled(FileLen, 52, Integer(1))>>],
    [rawtype |-> Integer(RT_ICON),
     decls |-> <<Scaled(IconU, 3, Integer(1)), Scaled(IconU, 4, Integer(2))>>],
    [rawtype |-> Integer(RT_GROUP_CURSOR),
     decls |-> <<Unscaled(FileLen, 34, Integer(1))>>],
    [rawtype |-> Integer(RT_STRING),
     decls |-> <<Unscaled(FileLen, 16, Integer(1))>>],
    [rawtype |-> Integer(RT_BITMAP),
     decls |-> <<Scaled(GroupIconU, 3, Integer(1))>>],
    [rawtype |-> Integer(RT_RCDATA),
     decls |-> <<Unscaled(0, 1, Integer(1)), Unscaled(1, 1, Integer(1))>>],
    [rawtype |-> Integer(RT_CURSOR),
     decls |-> <<Scaled(CursorU, 1, Integer(1))>>]
>>

Layouts == UNION {[1..n -> 1..Len(Menu)] : n \in 0..MaxTypes}

RawField(d, units, shiftfield) ==
    IF d.scaled /\ Low8(shiftfield) # 4 THEN 16 * units ELSE units

DeclBytes(d, shiftfield) ==
    LE16(RawField(d, d.off, shiftfield)) \o LE16(RawField(d, d.len, shiftfield))
    \o LE16(48) \o LE16(d.rawid) \o <<0, 0, 0, 0>>

EntryBytes(e, shiftfield) ==
    LE16(e.rawtype) \o LE16(Len(e.decls)) \o <<0, 0, 0, 0>>
    \o Flatten([i \in 1..Len(e.decls) |-> DeclBytes(e.decls[i], shiftfield)])

\* the table up to, not including, the sentinel
TableBody(in) ==
    LE16(in.shift)
    \o Flatten([i \in 1..Len(in.types) |-> EntryBytes((Menu \o DibMenu)[in.types[i]], in.shift)])

\* head is the prefix and the table with its sentinel
FileWithHead(in, head) ==
    head \o Fill(PoolStart - Len(head), 110) \o Pool(in.bad)
    \o Fill(DataBase - PoolStart - PoolLen, 111)
    \o IconBlob \o CursorBlob \o GroupIconBlob \o GroupCursorBlob \o DibBlob(in.dib)
    \o StringBlock(in.strings)

WholeFile(in) == FileWithHead(in, Fill(TableStart, 78) \o TableBody(in) \o LE16(0))

\* the offset of the sentinel in the whole file
SentinelAt(in) == TableStart + Len(TableBody(in))

BuildStream(in) ==
    IF in.cut = "before" THEN SubSeq(WholeFile(in), 1, SentinelAt(in))
    ELSE IF in.cut = "inside" THEN SubSeq(WholeFile(in), 1, SentinelAt(in) - 1)
    ELSE WholeFile(in)

----------------------------------------------------------------------------
(* Export.  The files an export leaves are a dict from the suffix export   *)
(* appends to the file path to the bytes written; open(.., 'wb') creates   *)
(* or truncates the file, and what was written before an exception stays.  *)
(* The sizes of a file header exceed 2^31 for deep pixel formats, so the   *)
(* values packed are kept as a pair of digits in base 2^24.                *)

\* the Python integer n (below 2^31) as digits
W(n) == [hi |-> n \div Pow2(24), lo |-> n % Pow2(24)]

\* a + b
WAdd(a, b) ==
    [hi |-> a.hi + b.hi + (a.lo + b.lo) \div Pow2(24), lo |-> (a.lo + b.lo) % Pow2(24)]

\* 2 ** e (an exponent above 50 stands at 50: every value of 2^32 or more
\* is packed alike)
WPow2(e) ==
    IF e < 24 THEN [hi |-> 0, lo |-> Pow2(e)] ELSE [hi |-> Pow2(Min(e, 50) - 24), lo |-> 0]

\* the integer v to pack in size bytes
Field(v, size) == [value |-> W(v), size |-> size]

\* struct.pack of an unsigned little-endian integer of size bytes: the
\* condition under which it packs, and its bytes
FitsIn(w, size) == IF size = 4 THEN w.hi < 256 ELSE w.hi = 0 /\ w.lo < Pow2(8 * size)
LittleEndian(w, size) ==
    IF size = 4 THEN << w.lo % 256, (w.lo \div 256) % 256, w.lo \div 65536, w.hi >>
    ELSE [i \in 1..size |-> (w.lo \div Pow2(8 * (i - 1))) % 256]

\* stream.write(struct.pack...(v)) for each field in turn, from field i on:
\* the exception of the first field that does not pack, and the bytes
\* written before it
RECURSIVE Pack(_, _, _)
Pack(fields, i, written) ==
    IF i > Len(fields) THEN [exc |-> "none", bytes |-> written]
    ELSE IF ~FitsIn(fields[i].value, fields[i].size)
    THEN [exc |-> "struct.error", bytes |-> written]
    ELSE Pack(fields, i + 1, written \o LittleEndian(fields[i].value, fields[i].size))

\* what an export that opens one file does: the structures packed are
\* written, then the data; the exception raised and the file left
OneFile(suffix, packed, data) ==
    [exc |-> packed.exc,
     files |-> << [key |-> suffix,
                   value |-> IF packed.exc = "none" THEN packed.bytes \o data
                             ELSE packed.bytes] >>]

\* no bit masks, whatever the compression method
bitfield_length_zero(bitmap) == 0

\* Bitmap.bitmap_file_header: the length of the bit masks after the header
bitfield_length(bitmap) ==
    IF bitmap.has_bitmap_core_header = "True" THEN 0
    ELSE IF bitmap.bitmap_header.compression_method = 3 THEN 12
    ELSE IF bitmap.bitmap_header.compression_method = 6 THEN 16
    ELSE 0

\* Bitmap.bitmap_file_header: total_palette_colors * 4
palette_size(bitmap) ==
    LET total_palette_count ==
            IF \/ bitmap.has_bitmap_core_header = "True"
               \/ bitmap.bitmap_header.total_palette_colors = 0
            THEN WPow2(bitmap.bitmap_header.bits_per_pixel)
            ELSE W(bitmap.bitmap_header.total_palette_colors)
    IN WAdd(WAdd(total_palette_count, total_palette_count),
            WAdd(total_palette_count, total_palette_count))

\* Bitmap.bitmap_file_header
bitmap_file_header(bitmap) ==
    [pixel_data_start_offset |->
        WAdd(W(14 + bitmap.bitmap_header.header_length + bitfield_length(bitmap)),
             palette_size(bitmap)),
     bitmap_length_in_bytes |-> W(14 + Len(bitmap.data))]

\* Bitmap.export, Bitmap.save_as_bmp and BitmapFileHeader.encode
BitmapExport(bitmap) ==
    OneFile(".bmp",
            Pack(<< Field(66, 1), Field(77, 1),
                    [value |-> bitmap_file_header(bitmap).bitmap_length_in_bytes, size |-> 4],
                    Field(0, 2), Field(0, 2),
                    [value |-> bitmap_file_header(bitmap).pixel_data_start_offset, size |-> 4] >>,
                 1, <<>>),
            bitmap.data)

\* the directory entry with the image placed right after the directory
write_ico_file_at_6(icon) ==
    Pack(<< Field(0, 2), Field(1, 2), Field(1, 2),
            Field(icon.bitmap_header.width, 1), Field(icon.bitmap_header.height \div 2, 1),
            Field(icon.bitmap_header.total_palette_colors, 2),
            Field(icon.bitmap_header.color_planes, 2),
            Field(icon.bitmap_header.bits_per_pixel, 2),
            Field(Len(icon.data), 4), Field(6, 4) >>,
         1, <<>>)

\* Icon.write_ico_file: ico_directory and ico_directory_entry as their
\* encode writes them, to be followed by the data
write_ico_file(icon) ==
    Pack(<< Field(0, 2), Field(1, 2), Field(1, 2),
            Field(icon.bitmap_header.width, 1), Field(icon.bitmap_header.height \div 2, 1),
            Field(icon.bitmap_header.total_palette_colors, 2),
            Field(icon.bitmap_header.color_planes, 2),
            Field(icon.bitmap_header.bits_per_pixel, 2),
            Field(Len(icon.data), 4), Field(6 + 16, 4) >>,
         1, <<>>)

\* Icon.export
IconExport(icon) == OneFile(".ico", write_ico_file(icon), icon.data)

\* an export that returns whatever the flag
CursorExportSilent(cursor) == [exc |-> "none", files |-> <<>>]

\* Cursor.export
CursorExport(cursor) ==
    IF cursor.is_in_group = "True" THEN [exc |-> "none", files |-> <<>>]
    ELSE [exc |-> "ValueError", files |-> <<>>]

\* GroupIcon.export: the loop over self.icons.values(), from icon i on; each
\* round opens the same path and writes one icon (a resource kept as raw
\* data has no write_ico_file)
RECURSIVE GroupIconExport(_, _, _, _)
GroupIconExport(icons, i, hp, files) ==
    IF i > Len(icons) THEN [exc |-> "none", files |-> files]
    ELSE IF hp[icons[i].value].class # "Icon"
    THEN [exc |-> "AttributeError", files |-> << [key |-> ".ico", value |-> <<>>] >>]
    ELSE IF IconExport(hp[icons[i].value]).exc # "none"
    THEN IconExport(hp[icons[i].value])
    ELSE GroupIconExport(icons, i + 1, hp, IconExport(hp[icons[i].value]).files)

\* GroupCursor.export: the image offsets, from cursor i on (a resource kept
\* as raw data holds a BytesIO, which has no len())
RECURSIVE cursor_image_start_pointers(_, _, _, _, _)
cursor_image_start_pointers(cursors, i, hp, current_offset, acc) ==
    IF i > Len(cursors) THEN [exc |-> "none", pointers |-> acc]
    ELSE IF hp[cursors[i].value].class = "ApplicationDefinedData"
    THEN [exc |-> "TypeError", pointers |-> acc]
    ELSE cursor_image_start_pointers(cursors, i + 1, hp,
            current_offset + Len(hp[cursors[i].value].data), Append(acc, current_offset))

\* GroupCursor.export: what is packed, CursorDirectory.encode and then
\* CursorDirectoryEntry.encode for each triple zip() gives
CurFields(group, hp, pointers) ==
    << Field(0, 2), Field(group.directory_type, 2), Field(Len(group.directory_entries), 2) >>
    \o Flatten([i \in 1..Min(Len(group.directory_entries), Len(group.members)) |->
            << Field(group.directory_entries[i].width, 1),
               Field(group.directory_entries[i].height, 1),
               Field(0, 1), Field(0, 1),
               Field(hp[group.members[i].value].x_hotspot, 2),
               Field(hp[group.members[i].value].y_hotspot, 2),
               Field(group.directory_entries[i].cursor_size_in_bytes, 4),
               Field(pointers[i], 4) >>])

\* GroupCursor.export; the first image starts at cursor_directory.length_in_bytes
GroupCursorExport(group, hp) ==
    LET offsets == cursor_image_start_pointers(group.members, 1, hp,
                        6 + Len(group.directory_entries) * 16, <<>>)
    IN IF offsets.exc # "none" THEN [exc |-> offsets.exc, files |-> <<>>]
       ELSE OneFile(".cur", Pack(CurFields(group, hp, offsets.pointers), 1, <<>>),
                    Flatten([i \in 1..Len(group.members) |->
                                hp[group.members[i].value].data]))

\* json.dump(self.strings, strings_file, indent = 2): the text written, a
\* list with one item per line, None as null, a string between quotes with
\* the escapes of ensure_ascii
json_dump(strings) ==
    LET hex(d) == IF d < 10 THEN 48 + d ELSE 87 + d
        short == << [c |-> 34, e |-> 34], [c |-> 92, e |-> 92], [c |-> 8, e |-> 98],
                    [c |-> 9, e |-> 116], [c |-> 10, e |-> 110], [c |-> 12, e |-> 102],
                    [c |-> 13, e |-> 114] >>
        char(c) == IF \E i \in 1..Len(short) : short[i].c = c
                   THEN <<92, short[CHOOSE i \in 1..Len(short) : short[i].c = c].e>>
                   ELSE IF c < 32 \/ c > 126
                   THEN <<92, 117, 48, 48, hex(c \div 16), hex(c % 16)>>
                   ELSE <<c>>
        item(x) == IF x.filled
                   THEN <<34>> \o Flatten([i \in 1..Len(x.text) |-> char(x.text[i])])
                        \o <<34>>
                   ELSE <<110, 117, 108, 108>>
        line(i) == <<10, 32, 32>> \o item(strings[i])
                   \o IF i < Len(strings) THEN <<44>> ELSE <<>>
    IN IF Len(strings) = 0 THEN <<91, 93>>
       ELSE <<91>> \o Flatten([i \in 1..Len(strings) |-> line(i)]) \o <<10, 93>>

\* resource.export(filepath)
Export(resource, hp) ==
    CASE resource.class = "Icon" -> IconExport(resource)
      [] resource.class = "Cursor" -> CursorExport(resource)
      [] resource.class = "Bitmap" -> BitmapExport(resource)
      [] resource.class = "GroupIcon" -> GroupIconExport(resource.members, 1, hp, <<>>)
      [] resource.class = "GroupCursor" -> GroupCursorExport(resource, hp)
      [] resource.class = "StringTable" ->
            [exc |-> "none",
             files |-> << [key |-> ".json", value |-> json_dump(resource.strings)] >>]
      [] resource.class = "ApplicationDefinedData" ->
            [exc |-> "none", files |-> << [key |-> "", value |-> resource.data] >>]

\* the rounds of the two loops of NE.export_resources over the dict, in order
ResourceItems(cache) ==
    Flatten([i \in 1..Len(cache) |->
                [j \in 1..Len(cache[i].value) |->
                    [type_code |-> cache[i].key, resource_id |-> cache[i].value[j].key,
                     ref |-> cache[i].value[j].value]]])

\* the loops of NE.export_resources from round i on: files what the rounds
\* before wrote; the export that raises ends the loops, what it had written
\* staying written
RECURSIVE ExportEach(_, _, _, _)
ExportEach(items, i, hp, files) ==
    IF i > Len(items) THEN [exc |-> "none", files |-> files]
    ELSE IF Export(hp[items[i].ref], hp).exc # "none"
    THEN [exc |-> Export(hp[items[i].ref], hp).exc,
          files |-> Append(files, [key |-> items[i],
                                   value |-> Export(hp[items[i].ref], hp).files])]
    ELSE ExportEach(items, i + 1, hp,
                    Append(files, [key |-> items[i],
                                   value |-> Export(hp[items[i].ref], hp).files]))

\* what the caller's last direct call did
\* op: "export" (resource.export of the object ref: exc, files) or
\* "ResourceString" (a name resolved with the cursor at saved: exc, string)
NoOutput == [op |-> "none", ref |-> 0, exc |-> "none", files |-> <<>>, string |-> <<>>,
             saved |-> 0]

----------------------------------------------------------------------------
(* NE.__init__: the table scan                                             *)

Init ==
    /\ input \in {[types |-> l, shift |-> v.shift, cut |-> v.cut, bad |-> v.bad,
                     dib |-> NoDib, strings |-> NoStrings, user_defined_resource_parsers |-> <<>>] : l \in Layouts, v \in Variants}
    /\ stream = BuildStream(input)
    /\ pos = TableStart
    /\ pc = "construct"
    /\ exc = "none"
    /\ resource_table_start_offset = 0
    /\ alignment_shift_count = 0
    /\ resource_type_tables = <<>>
    /\ _resources = None
    /\ heap = <<>>
    /\ round = 0
    /\ call = NoCall
    /\ ret = NoReturn
    /\ parsed_types = <<>>
    /\ decode_log = <<>>
    /\ lookup_log = <<>>
    /\ out = NoOutput

\* "except Exception" in the place of "except ValueError"
IsAnyException(e) == TRUE

\* ValueError and its subclasses: what "except ValueError" of NE.__init__ catches
IsValueError(e) == e \in {"ValueError", "UnicodeDecodeError"}

\* where NE.__init__ ends when the table scan raises e
ScanRaised(e) == IF IsValueError(e) THEN "no_table" ELSE "raised"

\* ResourceTable.__init__ without "&= 0x00ff"
ReadAlignmentShiftUnmasked ==
    /\ pc = "construct"
    /\ resource_table_start_offset' = pos
    /\ IF Short(pos, 2)
       THEN /\ pc' = ScanRaised("struct.error")
            /\ exc' = "struct.error"
            /\ pos' = Len(stream)
            /\ UNCHANGED alignment_shift_count
       ELSE /\ pc' = "scan"
            /\ alignment_shift_count' = Uint16At(pos)
            /\ pos' = pos + 2
            /\ UNCHANGED exc
    /\ UNCHANGED <<input, stream, resource_type_tables>>
    /\ UNCHANGED use_vars

\* ResourceTable.__init__ up to the alignment shift count
ReadAlignmentShift ==
    /\ pc = "construct"
    /\ resource_table_start_offset' = pos
    /\ IF Short(pos, 2)
       THEN /\ pc' = ScanRaised("struct.error")
            /\ exc' = "struct.error"
            /\ pos' = Len(stream)
            /\ UNCHANGED alignment_shift_count
       ELSE /\ pc' = "scan"
            /\ alignment_shift_count' = Low8(Uint16At(pos))
            /\ pos' = pos + 2
            /\ UNCHANGED exc
    /\ UNCHANGED <<input, stream, resource_type_tables>>
    /\ UNCHANGED use_vars

\* one round of the loop over the type-table entries, resource_type the
\* ResourceTypeTable read
ScanTypeTable(resource_type) ==
    /\ pos' = resource_type.pos
    /\ IF resource_type.exc # "none"
       THEN /\ pc' = ScanRaised(resource_type.exc)
            /\ exc' = resource_type.exc
            /\ UNCHANGED resource_type_tables
       ELSE IF resource_type.is_end_flag
       THEN /\ pc' = "ready"
            /\ UNCHANGED <<exc, resource_type_tables>>
       ELSE /\ pc' = "scan"
            /\ resource_type_tables' =
                  DictUpdate(resource_type_tables, resource_type.table.type_code,
                             resource_type.table)
            /\ UNCHANGED exc

ReadTypeTable ==
    /\ pc = "scan"
    /\ ScanTypeTable(ResourceTypeTable(pos, alignment_shift_count,
                                       resource_table_start_offset))
    /\ UNCHANGED <<input, stream, resource_table_start_offset, alignment_shift_count>>
    /\ UNCHANGED use_vars

----------------------------------------------------------------------------
(* ResourceTable.resources and find_resource_by_id, called by the user of  *)
(* the table once NE.__init__ has returned                                 *)

\* the lookups a caller makes
FindArgs == {[resource_id |-> IntKey(2), type_id |-> EnumKey(RT_ICON)]}

\* how find_resource_by_id ends, found what the two dict.get gave
Found(c, cached, found) ==
    IF found.exc # "none"
    THEN [NoReturn EXCEPT !.kind = "raise", !.call = c, !.cached = cached,
                          !.exc = found.exc, !.message = found.message]
    ELSE [NoReturn EXCEPT !.kind = "resource", !.call = c, !.cached = cached,
                          !.ref = found.ref]

\* how NE.export_resources ends, r what its loops gave
Exported(c, cached, r) ==
    [NoReturn EXCEPT !.kind = IF r.exc = "none" THEN "exported" ELSE "escape",
                     !.call = c, !.cached = cached, !.exc = r.exc, !.value = r.files]

\* what the call c returns once self.resources has returned the dict cache
Complete(c, cache, cached) ==
    IF c.op = "resources"
    THEN [NoReturn EXCEPT !.kind = "resources", !.call = c, !.cached = cached,
                          !.value = cache]
    ELSE IF c.op = "export_resources"
    THEN Exported(c, cached, ExportEach(ResourceItems(cache), 1, heap, <<>>))
    ELSE Found(c, cached, FindInCache(cache, c.resource_id, c.type_id))

\* the property resources without the check of the cache
EnterAfresh(c) ==
    /\ pc = "ready"
    /\ _resources' = Dict(<<>>)
    /\ pc' = "builtin"
    /\ round' = 1
    /\ call' = c
    /\ ret' = NoReturn
    /\ UNCHANGED <<out, input, stream, pos, exc, heap, parsed_types, decode_log, lookup_log>>
    /\ UNCHANGED scan_vars

\* the caller's call c reaches the property resources: the cached dict is
\* returned, or the dict is created empty and the first loop starts
Enter(c) ==
    /\ pc = "ready"
    /\ IF ~_resources.is_none
       THEN /\ ret' = Complete(c, _resources.dict, TRUE)
            /\ UNCHANGED <<pc, _resources, round, call>>
       ELSE /\ _resources' = Dict(<<>>)
            /\ pc' = "builtin"
            /\ round' = 1
            /\ call' = c
            /\ ret' = NoReturn
    /\ UNCHANGED <<out, input, stream, pos, exc, heap, parsed_types, decode_log, lookup_log>>
    /\ UNCHANGED scan_vars

\* the caller reads table.resources
CallResources == Enter([NoCall EXCEPT !.op = "resources"])

\* the caller calls table.find_resource_by_id(resource_id, type_id)
CallFind ==
    \E a \in FindArgs :
        Enter([op |-> "find", resource_id |-> a.resource_id, type_id |-> a.type_id])

\* what the loop that called _parse_resources on the type table at position
\* i of resource_type_tables does with its result r: the next round is "next"
\* of the loop "loop"; an exception leaves the property
AfterParseResources(i, loop, next, r) ==
    /\ parsed_types' = Append(parsed_types, resource_type_tables[i].value.type_code)
    /\ decode_log' = decode_log \o r.log
    /\ lookup_log' = lookup_log \o r.lookups
    /\ heap' = r.heap
    /\ pos' = r.pos
    /\ IF r.exc # "none"
       THEN /\ pc' = "ready"
            /\ call' = NoCall
            /\ ret' = Escape(call, r.exc)
            /\ UNCHANGED <<_resources, resource_type_tables, round>>
       ELSE /\ resource_type_tables' =
                 [resource_type_tables EXCEPT ![i].value.was_parsed = TRUE]
            /\ _resources' = Dict(DictUpdate(_resources.dict,
                                             resource_type_tables[i].value.type_code,
                                             r.resources))
            /\ pc' = loop
            /\ round' = next
            /\ UNCHANGED <<call, ret>>
    /\ UNCHANGED <<out, input, stream, exc, resource_table_start_offset, alignment_shift_count>>

ParseTypeTable(i, loop, next) ==
    AfterParseResources(i, loop, next,
                        ParseResources(resource_type_tables[i].value, _resources.dict,
                                       heap, pos))

\* the first loop looking the type tables up by resource_type.value
PresentByValue(j) == DictHas(resource_type_tables, IntKey(ResourceType[j]))

\* the rounds of "for resource_type in ResourceType": round j finds a type
\* table; the rounds from round i on that find one
Present(j) == DictHas(resource_type_tables, EnumKey(ResourceType[j]))
PresentFrom(i) == {j \in i..Len(ResourceType) : Present(j)}
FirstOf(S) == CHOOSE j \in S : \A k \in S : j <= k

\* the first loop up to and including its next round that parses a type table
ParseBuiltinType ==
    /\ pc = "builtin"
    /\ PresentFrom(round) # {}
    /\ LET j == FirstOf(PresentFrom(round))
       IN ParseTypeTable(DictIndex(resource_type_tables, EnumKey(ResourceType[j])),
                         "builtin", j + 1)

\* the first loop ends
EndBuiltinTypes ==
    /\ pc = "builtin"
    /\ PresentFrom(round) = {}
    /\ pc' = "other"
    /\ round' = 1
    /\ UNCHANGED <<out, input, stream, pos, exc, _resources, heap, call, ret,
                   parsed_types, decode_log, lookup_log>>
    /\ UNCHANGED scan_vars

\* the second loop without "if not resource_type_table.was_parsed"
UnparsedFromAll(i) == i..Len(resource_type_tables)

\* the rounds of "for resource_type_table in self.resource_type_tables.values()"
\* from the current round on whose type table was not parsed
UnparsedFrom(i) ==
    {j \in i..Len(resource_type_tables) : ~resource_type_tables[j].value.was_parsed}

\* the second loop up to and including its next round that parses a type table
ParseOtherType ==
    /\ pc = "other"
    /\ UnparsedFrom(round) # {}
    /\ LET j == FirstOf(UnparsedFrom(round))
       IN ParseTypeTable(j, "other", j + 1)

\* the second loop ends, the property returns and the caller's call completes
ReturnResources ==
    /\ pc = "other"
    /\ UnparsedFrom(round) = {}
    /\ pc' = "ready"
    /\ call' = NoCall
    /\ ret' = Complete(call, _resources.dict, FALSE)
    /\ UNCHANGED <<out, input, stream, pos, exc, _resources, heap, round,
                   parsed_types, decode_log, lookup_log>>
    /\ UNCHANGED scan_vars

Next ==
    \/ ReadAlignmentShift
    \/ ReadTypeTable
    \/ CallResources
    \/ CallFind
    \/ ParseBuiltinType
    \/ EndBuiltinTypes
    \/ ParseOtherType
    \/ ReturnResources

Spec == Init /\ [][Next]_vars

----------------------------------------------------------------------------
(* Export of the decoded resources                                         *)

\* the caller calls export on a resource of the dict that table.resources
\* returned
ExportResource ==
    /\ pc = "ready"
    /\ ret.kind = "resources"
    /\ \E i \in 1..Len(ret.value) :
         \E j \in 1..Len(ret.value[i].value) :
            out' = [NoOutput EXCEPT !.op = "export", !.ref = ret.value[i].value[j].value,
                       !.exc = Export(heap[ret.value[i].value[j].value], heap).exc,
                       !.files = Export(heap[ret.value[i].value[j].value], heap).files]
    /\ UNCHANGED <<input, stream, pos, pc, exc, _resources, heap, round, call, ret,
                   parsed_types, decode_log, lookup_log>>
    /\ UNCHANGED scan_vars

\* the files whose resources are exported: the files of Init; the files
\* with one resource, a drawn bitmap; the files with a
\* group-icon of two decoded icons, in either order of the type tables;
\* the file with two cursors and a group-cursor that references one twice;
\* the files with one resource, a drawn string table; the whole files
\* read with parsers of the caller's; and the files with two icons and a
\* group-icon declared as a bitmap, read with GroupIcon as the caller's
\* parser of bitmaps; the file with two resources of one type and id; and
\* the file with one cursor and a group-cursor that references two
InitExport ==
    /\ input \in {[types |-> l, shift |-> v.shift, cut |-> v.cut, bad |-> v.bad,
                     dib |-> NoDib, strings |-> NoStrings, user_defined_resource_parsers |-> <<>>] :
                        l \in Layouts, v \in Variants}
                  \cup {[types |-> <<Len(Menu) + k>>, shift |-> 0, cut |-> "none",
                         bad |-> FALSE, dib |-> d, strings |-> NoStrings, user_defined_resource_parsers |-> <<>>] : k \in 1..3, d \in Dibs}
                  \cup {[types |-> l, shift |-> 0, cut |-> "none", bad |-> FALSE,
                         dib |-> NoDib, strings |-> NoStrings, user_defined_resource_parsers |-> <<>>] : l \in {<<Len(Menu) + 4, 3>>, <<3, Len(Menu) + 4>>}}
                  \cup {[types |-> <<4, Len(Menu) + 5>>, shift |-> 0, cut |-> "none",
                         bad |-> FALSE, dib |-> [NoDib EXCEPT !.shape = "twice"],
                         strings |-> NoStrings, user_defined_resource_parsers |-> <<>>]}
                  \cup {[types |-> <<Len(Menu) + 6>>, shift |-> 0, cut |-> "none",
                         bad |-> FALSE, dib |-> NoDib, strings |-> t,
                         user_defined_resource_parsers |-> <<>>] : t \in StringBlocks}
                  \cup {[types |-> l, shift |-> 0, cut |-> "none", bad |-> FALSE,
                         dib |-> NoDib, strings |-> NoStrings,
                         user_defined_resource_parsers |-> u] :
                            l \in Layouts, u \in UserParsers}
                  \cup {[types |-> l, shift |-> 0, cut |-> "none", bad |-> FALSE,
                         dib |-> NoDib, strings |-> NoStrings,
                         user_defined_resource_parsers |->
                            << [key |-> EnumKey(RT_BITMAP), value |-> "GroupIcon"] >>] :
                            l \in {<<Len(Menu) + 7, 2>>, <<2, Len(Menu) + 7>>}}
                  \cup {[types |-> <<Len(Menu) + 8>>, shift |-> 0, cut |-> "none",
                         bad |-> FALSE, dib |-> NoDib, strings |-> NoStrings,
                         user_defined_resource_parsers |-> <<>>]}
                  \cup {[types |-> <<Len(Menu) + 9, 5>>, shift |-> 0, cut |-> "none",
                         bad |-> FALSE, dib |-> NoDib, strings |-> NoStrings,
                         user_defined_resource_parsers |-> <<>>]}
    /\ stream = BuildStream(input)
    /\ pos = TableStart
    /\ pc = "construct"
    /\ exc = "none"
    /\ resource_table_start_offset = 0
    /\ alignment_shift_count = 0
    /\ resource_type_tables = <<>>
    /\ _resources = None
    /\ heap = <<>>
    /\ round = 0
    /\ call = NoCall
    /\ ret = NoReturn
    /\ parsed_types = <<>>
    /\ decode_log = <<>>
    /\ lookup_log = <<>>
    /\ out = NoOutput

\* NE.export_resources(directory_path): it returns at once when the table
\* scan left resource_table None, else it reads table.resources and exports
\* every resource of the dict
ExportResources ==
    \/ /\ pc = "no_table"
       /\ ret' = [NoReturn EXCEPT !.kind = "exported",
                                  !.call = [NoCall EXCEPT !.op = "export_resources"]]
       /\ UNCHANGED <<out, input, stream, pos, pc, exc, _resources, heap, round, call,
                      parsed_types, decode_log, lookup_log>>
       /\ UNCHANGED scan_vars
    \/ Enter([NoCall EXCEPT !.op = "export_resources"])

NextExport == Next \/ ExportResource \/ ExportResources

SpecExport == InitExport /\ [][NextExport]_vars

\* a step of the property resources inside its two loops: a round of a loop,
\* or the end of a loop
LoopStep ==
    /\ pc \in {"builtin", "other"}
    /\ pc' \in {"builtin", "other", "ready"}
    /\ round' \in 1..(Len(ResourceType) + MaxTypes + 1)
    /\ <<pc', round'>> # <<pc, round>>

\* the statements of the property run one after the other with nothing to
\* wait for: while it is inside its loops, steps of the loops keep being taken
SpecExportFair == SpecExport /\ WF_<<pc, round>>(LoopStep)

----------------------------------------------------------------------------
(* The resolution of one name, over every short stream                     *)

\* the longest stream
MaxNameLen == 4

\* the bytes of a stream: a terminator, a length, a letter and a byte that
\* is not ASCII
InitName ==
    /\ stream \in UNION {[1..n -> {0, 2, 65, 200}] : n \in 0..MaxNameLen}
    /\ pos \in {0, Len(stream)}
    /\ input \in {[offset_from_stream_start |-> o] : o \in 0..(MaxNameLen + 1)}
    /\ pc = "name"
    /\ exc = "none"
    /\ resource_table_start_offset = 0
    /\ alignment_shift_count = 0
    /\ resource_type_tables = <<>>
    /\ _resources = None
    /\ heap = <<>>
    /\ round = 0
    /\ call = NoCall
    /\ ret = NoReturn
    /\ parsed_types = <<>>
    /\ decode_log = <<>>
    /\ lookup_log = <<>>
    /\ out = NoOutput

\* ResourceString(stream, offset_from_stream_start)
ResolveName ==
    /\ pc = "name"
    /\ pc' = "named"
    /\ out' = [NoOutput EXCEPT !.op = "ResourceString", !.saved = pos,
                   !.exc = ResourceString(pos, input.offset_from_stream_start).exc,
                   !.string = ResourceString(pos, input.offset_from_stream_start).string]
    /\ pos' = ResourceString(pos, input.offset_from_stream_start).pos
    /\ UNCHANGED <<input, stream, exc, _resources, heap, round, call, ret,
                   parsed_types, decode_log, lookup_log>>
    /\ UNCHANGED scan_vars

SpecName == InitName /\ [][ResolveName]_vars

----------------------------------------------------------------------------
(* Properties.  The files are described by input; the formulas compare    *)
(* what the program built with what the file was written to hold.          *)

\* the type key an entry of the menu was written for
TypeOf(e) ==
    IF e.rawtype < 32768 THEN StrKey(<<65, 66>>)
    ELSE IF \E j \in 1..Len(ResourceType) : ResourceType[j] = e.rawtype - 32768
    THEN EnumKey(e.rawtype - 32768)
    ELSE IntKey(e.rawtype - 32768)

\* raw << s with raw a 16-bit field, for the shift counts of the files
LeftShift(raw, s) ==
    IF raw = 0 THEN 0 ELSE IF s >= 63 THEN TooLarge ELSE raw * (2 ^ s)

\* the type table t holds the declarations the entry e was written with, in
\* the order written, their offsets and lengths shifted by the low byte of
\* the file's shift field
WrittenAs(t, e) ==
    /\ t.type_code = TypeOf(e)
    /\ Len(t.resource_declarations) = Len(e.decls)
    /\ \A k \in 1..Len(e.decls) :
        /\ t.resource_declarations[k].data_start_offset =
              LeftShift(RawField(e.decls[k], e.decls[k].off, input.shift),
                        input.shift % 256)
        /\ t.resource_declarations[k].resource_length_in_bytes =
              LeftShift(RawField(e.decls[k], e.decls[k].len, input.shift),
                        input.shift % 256)

\* an exception left _parse_resources: a seek to a data offset raised, or
\* the local name resource was unbound
Aborted ==
    \E k \in 1..Len(decode_log) :
        decode_log[k].seek # "none" \/ decode_log[k].stored = 0

\* the property resources has returned from its two loops
Materialized == pc = "ready" /\ ~_resources.is_none /\ ~Aborted

\* the declaration of event k is the last one visited with its type and id
LastFor(k) ==
    \A m \in (k + 1)..Len(decode_log) :
        ~(decode_log[m].type_code = decode_log[k].type_code
          /\ decode_log[m].id = decode_log[k].id)

\* the registered parser raised and the raw read succeeded / raised too
FellBack(e) == e.seek = "none" /\ e.parser \notin {"none", "not run"} /\ e.raw = "none"
BothFailed(e) ==
    e.seek = "none" /\ e.parser \notin {"none", "not run"} /\ e.raw \notin {"none", "not run"}

\* the id is declared in the type table of the type
Declared(resource_id, type_id) ==
    /\ DictHas(resource_type_tables, type_id)
    /\ \E k \in 1..Len(DictGet(resource_type_tables, type_id).resource_declarations) :
          DictGet(resource_type_tables, type_id).resource_declarations[k].id = resource_id

\* C1: whatever the order of the type tables in the file, every lookup a
\* group decoder makes of an id that the RT_ICON (RT_CURSOR) type table of the
\* resource table declares finds its resource.
C1_GroupLookupsResolve ==
    \A k \in 1..Len(lookup_log) :
        Declared(lookup_log[k].resource_id, lookup_log[k].type_id) => lookup_log[k].found

\* the group's type table comes first in the file, the materialization has
\* returned, and the group was decoded with both of its icons resolved
C1_GroupFirstResolved ==
    /\ Len(resource_type_tables) = 2
    /\ resource_type_tables[1].key = EnumKey(RT_GROUP_ICON)
    /\ resource_type_tables[2].key = EnumKey(RT_ICON)
    /\ Materialized
    /\ Len(lookup_log) = 2
    /\ \A k \in 1..2 : lookup_log[k].found
    /\ \E r \in 1..Len(heap) :
          heap[r].class = "GroupIcon" /\ Len(heap[r].members) = 2

IsPrefix(a, b) == Len(a) <= Len(b) /\ a = SubSeq(b, 1, Len(a))

\* the built-in types of the table in the order of the enumeration, then the
\* other types in the order of the table
BuiltinKeys ==
    SelectSeq([j \in 1..Len(ResourceType) |-> EnumKey(ResourceType[j])],
              LAMBDA key : DictHas(resource_type_tables, key))
OtherKeys ==
    SelectSeq([i \in 1..Len(resource_type_tables) |-> resource_type_tables[i].key],
              LAMBDA key : key.tag # "enum")

Before(first, second) ==
    \A a, b \in 1..Len(decode_log) :
        (decode_log[a].type_code = EnumKey(first)
         /\ decode_log[b].type_code = EnumKey(second)) => a < b

\* C2: the type tables are decoded built-in types first, in the order of the
\* enumeration, then the other types in the order of the table, each type
\* table once: every RT_ICON declaration before any RT_GROUP_ICON one, every
\* RT_CURSOR one before any RT_GROUP_CURSOR one, the second phase starts only
\* when the built-in types are done, and when the materialization has returned
\* every type table was decoded.
C2_TwoPhaseOrder ==
    /\ IsPrefix(parsed_types, BuiltinKeys \o OtherKeys)
    /\ pc = "other" => IsPrefix(BuiltinKeys, parsed_types)
    /\ Materialized => parsed_types = BuiltinKeys \o OtherKeys
    /\ Before(RT_ICON, RT_GROUP_ICON)
    /\ Before(RT_CURSOR, RT_GROUP_CURSOR)

\* a file with another type before a built-in one was decoded, built-in first
C2_BuiltinDecodedFirst ==
    /\ Materialized
    /\ Len(resource_type_tables) = 2
    /\ resource_type_tables[1].key.tag # "enum"
    /\ resource_type_tables[2].key.tag = "enum"
    /\ parsed_types = <<resource_type_tables[2].key, resource_type_tables[1].key>>
    /\ Len(decode_log) >= 2

\* C3: once the materialization has returned, every later read of resources
\* and every later find leaves the cache, the decoded objects, the stream and
\* its cursor as they are, decodes nothing, and what resources returns is the
\* cached mapping.
C3_Memoized ==
    [][Materialized =>
          /\ UNCHANGED <<_resources, heap, stream, pos, resource_type_tables,
                         parsed_types, decode_log, lookup_log>>
          /\ pc' = "ready"
          /\ ret.kind = "resources" => ret.value = _resources.dict
          /\ ret'.kind = "resources" => ret'.value = _resources.dict
          /\ ret'.cached]_vars

\* a later read of resources was answered from the cache of decoded resources
C3_SecondCallAnswered ==
    /\ Materialized
    /\ ret.cached
    /\ ret.kind = "resources"
    /\ Len(ret.value) >= 1
    /\ Len(decode_log) >= 2
    /\ Len(heap) >= 2

\* C4: when the registered parser of a declaration raised and the raw read
\* succeeded, the resource kept is raw data holding the stream's bytes from the
\* declaration's data offset over its declared length (those of them the
\* stream holds), and the result maps the declaration's id to it.
C4_RawFallback ==
    \A k \in 1..Len(decode_log) :
        FellBack(decode_log[k]) =>
            /\ decode_log[k].stored \in 1..Len(heap)
            /\ heap[decode_log[k].stored].class = "ApplicationDefinedData"
            /\ heap[decode_log[k].stored].data =
                  SubSeq(stream, decode_log[k].data_start_offset + 1,
                         Min(decode_log[k].data_start_offset
                               + decode_log[k].resource_length_in_bytes,
                             Len(stream)))
            /\ (DictHas(_resources.dict, decode_log[k].type_code) /\ LastFor(k)) =>
                  /\ DictHas(DictGet(_resources.dict, decode_log[k].type_code),
                             decode_log[k].id)
                  /\ DictGet(DictGet(_resources.dict, decode_log[k].type_code),
                             decode_log[k].id) = decode_log[k].stored

\* the Icon parser raised on a declaration of 16 bytes and the result holds
\* its raw data
C4_IconFellBack ==
    \E k \in 1..Len(decode_log) :
        /\ FellBack(decode_log[k])
        /\ decode_log[k].class = "Icon"
        /\ DictHas(_resources.dict, decode_log[k].type_code)
        /\ decode_log[k].resource_length_in_bytes = 16
        /\ Len(heap[decode_log[k].stored].data) = 16

\* C5: no failure of one declaration aborts the materialization: no exception
\* leaves the property resources, and once it has returned every type table
\* of the resource table has its resources in the result.
C5_NeverAborts ==
    /\ ret.kind # "escape"
    /\ (pc = "ready" /\ ~_resources.is_none) =>
          \A i \in 1..Len(resource_type_tables) :
              DictHas(_resources.dict, resource_type_tables[i].key)

\* C6: when the registered parser and the raw read both failed for a
\* declaration, the result of its type has no entry under its id.
C6_BothFailedAbsent ==
    \A k \in 1..Len(decode_log) :
        (BothFailed(decode_log[k]) /\ LastFor(k)
         /\ DictHas(_resources.dict, decode_log[k].type_code)) =>
            ~DictHas(DictGet(_resources.dict, decode_log[k].type_code),
                     decode_log[k].id)

\* C7: a find made while there is no cache starts the materialization and is
\* answered only when it is over; what a find returns or raises is decided by
\* the cache: the resource when the type and the id are there, a ValueError
\* "no such type" when the type is not, and a ValueError with another message,
\* "no such id", when the type is there and the id is not.
C7_Find ==
    [][/\ (pc = "ready" /\ _resources.is_none) =>
              (pc' = "builtin" /\ ~_resources'.is_none /\ ret'.kind = "none")
       /\ (ret'.call.op = "find" /\ ret'.kind # "escape") =>
              /\ ~_resources'.is_none
              /\ NoSuchType # NoSuchId
              /\ IF \A i \in 1..Len(_resources'.dict) :
                        _resources'.dict[i].key # ret'.call.type_id
                 THEN /\ ret'.kind = "raise"
                      /\ ret'.exc = "ValueError"
                      /\ ret'.message = NoSuchType
                 ELSE \E i \in 1..Len(_resources'.dict) :
                        /\ _resources'.dict[i].key = ret'.call.type_id
                        /\ IF \A m \in 1..Len(_resources'.dict[i].value) :
                                 _resources'.dict[i].value[m].key # ret'.call.resource_id
                           THEN /\ ret'.kind = "raise"
                                /\ ret'.exc = "ValueError"
                                /\ ret'.message = NoSuchId
                           ELSE /\ ret'.kind = "resource"
                                /\ \E m \in 1..Len(_resources'.dict[i].value) :
                                     /\ _resources'.dict[i].value[m].key
                                          = ret'.call.resource_id
                                     /\ _resources'.dict[i].value[m].value = ret'.ref]_vars

\* a find that started the materialization was answered "no such id": the
\* type is in the result and the id is not
C7_NoSuchIdAnswered ==
    /\ ret.call.op = "find"
    /\ ~ret.cached
    /\ ret.kind = "raise"
    /\ ret.message = NoSuchId
    /\ DictHas(_resources.dict, ret.call.type_id)
    /\ Len(decode_log) >= 1

\* C8: the shift count is the low byte of the file's shift field, and every
\* declaration's data offset and length are its raw 16-bit fields shifted left
\* by it; a high byte in the shift field changes nothing.
C8_ShiftMasked ==
    /\ pc \in {"scan", "ready", "builtin", "other"} =>
          alignment_shift_count = input.shift % 256
    /\ \A i \in 1..Len(resource_type_tables) :
          \E j \in 1..Len(input.types) :
              WrittenAs(resource_type_tables[i].value, Menu[input.types[j]])

\* a file whose shift field has a high byte was read with the shift count 4
C8_HighByteIgnored ==
    /\ pc = "ready"
    /\ input.shift > 255
    /\ alignment_shift_count = 4
    /\ \E i \in 1..Len(resource_type_tables) :
          \E k \in 1..Len(resource_type_tables[i].value.resource_declarations) :
              /\ resource_type_tables[i].value.resource_declarations[k].data_start_offset
                    = 16 * IconU
              /\ resource_type_tables[i].value.resource_declarations[k]
                    .resource_length_in_bytes = 48

\* C9: when the scan has read the sentinel, the type tables are the entries
\* of the file before the sentinel, one for one and in the order of the file,
\* each with its declarations in the order of the file.
C9_OneTablePerEntry ==
    pc = "ready" =>
        /\ Len(resource_type_tables) = Len(input.types)
        /\ \A i \in 1..Len(input.types) :
              i <= Len(resource_type_tables) =>
                  WrittenAs(resource_type_tables[i].value, Menu[input.types[i]])

\* the entries of the file and their declarations have integer types and ids
IntegerOnly ==
    \A i \in 1..Len(input.types) :
        /\ Menu[input.types[i]].rawtype >= 32768
        /\ \A k \in 1..Len(Menu[input.types[i]].decls) :
              Menu[input.types[i]].decls[k].rawid >= 32768

----------------------------------------------------------------------------
(* Name resolution (checked over every short stream)                      *)

\* the offset a name was resolved at, and the bytes the stream holds of the
\* n that its length byte n declares
NameOffset == input.offset_from_stream_start
HasLengthByte == NameOffset < Len(stream)
DeclaredLength == stream[NameOffset + 1]
Held == SubSeq(stream, NameOffset + 2, Min(NameOffset + 1 + DeclaredLength, Len(stream)))
Resolved == pc = "named" /\ out.exc = "none"

\* C11 as stated: for every stream and every offset, the resolution of a
\* name returns the text of the n bytes that follow the length byte n, and
\* the cursor afterwards equals the cursor before.
C11_EveryNameRoundTrips ==
    pc = "named" =>
        /\ HasLengthByte
        /\ out.exc = "none"
        /\ out.string = SubSeq(stream, NameOffset + 2, NameOffset + 1 + DeclaredLength)
        /\ Len(out.string) = DeclaredLength
        /\ pos = out.saved

\* C11 amended: whenever the resolution of a name succeeds, the cursor
\* afterwards equals the cursor before, and the text returned is made of the
\* bytes that follow the length byte n: as many of the n as the stream holds,
\* up to the first zero byte among them.
C11_ResolvedNameRoundTrips ==
    Resolved =>
        /\ pos = out.saved
        /\ HasLengthByte
        /\ \E k \in 0..Len(Held) :
              /\ out.string = SubSeq(Held, 1, k)
              /\ \A i \in 1..k : Held[i] # 0
              /\ k = Len(Held) \/ Held[k + 1] = 0

\* a name of two letters was resolved with the cursor elsewhere, at the end
\* of the stream, and the cursor is there again
C11_NameResolvedFromElsewhere ==
    /\ Resolved
    /\ Len(out.string) = 2
    /\ out.saved = Len(stream)
    /\ out.saved # NameOffset
    /\ pos = out.saved

\* C12: a resolved name is truncated at its first embedded zero byte when
\* one occurs among the declared bytes, and a zero-length field resolves to
\* the empty string without an error.
C12_TruncatedAtTerminator ==
    pc = "named" /\ HasLengthByte =>
        /\ DeclaredLength = 0 => out.exc = "none" /\ out.string = <<>> /\ pos = out.saved
        /\ \A z \in 1..Len(Held) :
              (Held[z] = 0 /\ \A i \in 1..(z - 1) : Held[i] # 0 /\ Held[i] < 128)
                 => out.exc = "none" /\ out.string = SubSeq(Held, 1, z - 1)

\* a name declared two bytes long with a zero as its second byte was
\* resolved to one letter
C12_SecondByteZero ==
    /\ pc = "named"
    /\ NameOffset + 3 <= Len(stream)
    /\ DeclaredLength = 2
    /\ stream[NameOffset + 2] = 65
    /\ stream[NameOffset + 3] = 0
    /\ out.exc = "none"
    /\ out.string = <<65>>

----------------------------------------------------------------------------
(* The two kinds of type and id fields                                     *)

\* the text of the pool's string at the raw name field raw
NameText(raw) ==
    CASE raw = NameAB -> <<65, 66>>
      [] raw = NameEmpty -> <<>>
      [] raw = NameNul -> <<67>>
      [] raw = NameLast -> <<69>>

\* what a raw 16-bit type field (id field) denotes
TypeDenoted(raw) ==
    IF raw >= 32768
    THEN IF \E j \in 1..Len(ResourceType) : ResourceType[j] = raw - 32768
         THEN [tag |-> "enum", n |-> raw - 32768, s |-> <<>>]
         ELSE [tag |-> "int", n |-> raw - 32768, s |-> <<>>]
    ELSE [tag |-> "str", n |-> 0, s |-> NameText(raw)]
IdDenoted(raw) ==
    IF raw >= 32768 THEN [tag |-> "int", n |-> raw - 32768, s |-> <<>>]
    ELSE [tag |-> "str", n |-> 0, s |-> NameText(raw)]

\* the table scan has ended and built the resource table
Scanned == pc \notin {"construct", "scan", "no_table", "raised"}

\* C13: a 16-bit type or id field with bit 15 set denotes the integer of
\* its low 15 bits (for a type, the member of the enumeration when there is
\* one, a plain integer otherwise); with bit 15 clear it denotes the Pascal
\* string at the table's start offset plus the field.
C13_FieldKinds ==
    Scanned =>
        \A i \in 1..Len(input.types) :
            /\ DictHas(resource_type_tables, TypeDenoted(Menu[input.types[i]].rawtype))
            /\ (\A m \in (i + 1)..Len(input.types) :
                    Menu[input.types[m]].rawtype # Menu[input.types[i]].rawtype)
               => LET t == DictGet(resource_type_tables,
                                   TypeDenoted(Menu[input.types[i]].rawtype))
                  IN /\ Len(t.resource_declarations) = Len(Menu[input.types[i]].decls)
                     /\ \A k \in 1..Len(t.resource_declarations) :
                           t.resource_declarations[k].id =
                              IdDenoted(Menu[input.types[i]].decls[k].rawid)

\* a table was scanned that holds a type named by a string, with an integer
\* id and an id named by a string, and a type that is a plain integer
C13_NamedAndNumbered ==
    /\ Scanned
    /\ DictHas(resource_type_tables, StrKey(<<65, 66>>))
    /\ DictHas(resource_type_tables, IntKey(100))
    /\ DictGet(resource_type_tables, StrKey(<<65, 66>>)).resource_declarations[1].id = IntKey(5)
    /\ DictGet(resource_type_tables, StrKey(<<65, 66>>)).resource_declarations[2].id
          = StrKey(<<69>>)

----------------------------------------------------------------------------
(* The decoders of bitmaps, icons and cursors (on the drawn bitmap)        *)

\* the offset of the drawn bitmap's header, and the bytes a declaration of
\* 48 bytes at it covers
DibStart == FileLen + 4
DibRun == SubSeq(stream, DibStart + 1, DibStart + 48)

\* the object has the header fields the drawn bitmap was written with
HeaderAsDrawn(o) ==
    /\ o.bitmap_header.width = input.dib.width
    /\ o.bitmap_header.height = 32
    /\ o.bitmap_header.color_planes = 1
    /\ o.bitmap_header.bits_per_pixel = input.dib.bits_per_pixel
    /\ input.dib.shape = "info" =>
          /\ o.bitmap_header.compression_method = input.dib.compression_method
          /\ o.bitmap_header.total_palette_colors = input.dib.total_palette_colors

\* C14: the decode of a bitmap whose header length field is 40 gives a
\* bitmap with the modern header, not flagged legacy; a field of 12 gives one
\* flagged legacy; any other value fails the decode of that one resource.
\* The payload retained is the run of the declared length that starts at the
\* header's own offset.
C14_BitmapShapes ==
    \A k \in 1..Len(decode_log) :
        decode_log[k].type_code = EnumKey(RT_BITMAP) =>
            /\ decode_log[k].stored # 0
            /\ input.dib.shape = "info" =>
                  /\ decode_log[k].parser = "none"
                  /\ heap[decode_log[k].stored].class = "Bitmap"
                  /\ heap[decode_log[k].stored].has_bitmap_core_header = "False"
                  /\ heap[decode_log[k].stored].bitmap_header.header_length = 40
                  /\ HeaderAsDrawn(heap[decode_log[k].stored])
                  /\ heap[decode_log[k].stored].data = DibRun
            /\ input.dib.shape = "core" =>
                  /\ decode_log[k].parser = "none"
                  /\ heap[decode_log[k].stored].class = "Bitmap"
                  /\ heap[decode_log[k].stored].has_bitmap_core_header = "True"
                  /\ heap[decode_log[k].stored].bitmap_header.header_length = 12
                  /\ HeaderAsDrawn(heap[decode_log[k].stored])
                  /\ heap[decode_log[k].stored].data = DibRun
            /\ input.dib.shape = "other" =>
                  /\ decode_log[k].parser \notin {"none", "not run"}
                  /\ heap[decode_log[k].stored].class # "Bitmap"

\* a bitmap with a 12-byte header was decoded and flagged legacy
C14_LegacyBitmapDecoded ==
    /\ pc = "ready"
    /\ input.dib.shape = "core"
    /\ \E k \in 1..Len(decode_log) :
          /\ decode_log[k].type_code = EnumKey(RT_BITMAP)
          /\ decode_log[k].stored # 0
          /\ heap[decode_log[k].stored].has_bitmap_core_header = "True"
          /\ heap[decode_log[k].stored].data = DibRun

\* the decode events of the drawn bitmap declared as an icon, as a cursor
DibEvents(type) ==
    {k \in 1..Len(decode_log) :
        input.dib.shape # "none" /\ decode_log[k].type_code = EnumKey(type)}

\* the declaration of event k was decoded by the class registered for its type
DecodedAs(k, class) ==
    /\ decode_log[k].parser = "none"
    /\ decode_log[k].stored # 0
    /\ heap[decode_log[k].stored].class = class
    /\ HeaderAsDrawn(heap[decode_log[k].stored])
    /\ heap[decode_log[k].stored].bitmap_header.header_length
          = (IF input.dib.shape = "info" THEN 40 ELSE 12)

\* the declaration of event k was kept as raw data
KeptRaw(k) ==
    /\ decode_log[k].parser \notin {"none", "not run"}
    /\ decode_log[k].stored # 0
    /\ heap[decode_log[k].stored].class = "ApplicationDefinedData"

\* C15 as stated: icon decode and cursor decode are the bitmap decode
\* (modern header, legacy 12-byte header as fallback) with, for the cursor
\* only, the two hotspot fields first; every decoded icon and cursor starts
\* with belongs_to_group false.
C15_IconAndCursorAsBitmap ==
    /\ \A k \in DibEvents(RT_ICON) :
          input.dib.shape \in {"info", "core"} =>
              /\ DecodedAs(k, "Icon")
              /\ heap[decode_log[k].stored].is_in_group = "False"
    /\ \A k \in DibEvents(RT_CURSOR) :
          input.dib.shape \in {"info", "core"} =>
              /\ DecodedAs(k, "Cursor")
              /\ heap[decode_log[k].stored].is_in_group = "False"
              /\ heap[decode_log[k].stored].x_hotspot = 3
              /\ heap[decode_log[k].stored].y_hotspot = 5

\* C15 amended: cursor decode is the bitmap decode (modern header, legacy
\* 12-byte header as fallback) with the two hotspot fields first, and a
\* decoded cursor starts with is_in_group false; icon decode reads the modern
\* 40-byte header only, so that an icon with a legacy header is kept as raw
\* data, and a decoded icon has no group flag.
C15_CursorAsBitmapIconModernOnly ==
    /\ \A k \in DibEvents(RT_ICON) :
          /\ input.dib.shape = "info" =>
                /\ DecodedAs(k, "Icon")
                /\ heap[decode_log[k].stored].is_in_group = "unset"
                /\ heap[decode_log[k].stored].has_bitmap_core_header = "unset"
                /\ heap[decode_log[k].stored].data = DibRun
          /\ input.dib.shape \in {"core", "other"} => KeptRaw(k)
    /\ \A k \in DibEvents(RT_CURSOR) :
          /\ input.dib.shape \in {"info", "core"} =>
                /\ DecodedAs(k, "Cursor")
                /\ heap[decode_log[k].stored].has_bitmap_core_header
                      = (IF input.dib.shape = "core" THEN "True" ELSE "False")
                /\ heap[decode_log[k].stored].is_in_group = "False"
                /\ heap[decode_log[k].stored].x_hotspot = 3
                /\ heap[decode_log[k].stored].y_hotspot = 5
                /\ heap[decode_log[k].stored].data
                      = SubSeq(stream, DibStart + 1, DibStart + 52)
          /\ input.dib.shape = "other" => KeptRaw(k)

\* a cursor with a legacy header was decoded, with its hotspot and not in a
\* group
C15_LegacyCursorDecoded ==
    /\ pc = "ready"
    /\ input.dib.shape = "core"
    /\ \E k \in DibEvents(RT_CURSOR) :
          /\ DecodedAs(k, "Cursor")
          /\ heap[decode_log[k].stored].has_bitmap_core_header = "True"
          /\ heap[decode_log[k].stored].is_in_group = "False"
          /\ heap[decode_log[k].stored].x_hotspot = 3

----------------------------------------------------------------------------
(* Groups and their members                                                *)

\* the decoded groups of a class
Groups(class) == {r \in 1..Len(heap) : heap[r].class = class}

\* the resource the cache holds for an id of a type
Cached(type, id) == DictGet(DictGet(_resources.dict, EnumKey(type)), id)

\* the group r resolved each of its ids through the cache of the type
ResolvedThrough(r, type) ==
    \A m \in 1..Len(heap[r].members) :
        /\ DictHas(_resources.dict, EnumKey(type))
        /\ DictHas(DictGet(_resources.dict, EnumKey(type)), heap[r].members[m].key)
        /\ heap[r].members[m].value = Cached(type, heap[r].members[m].key)
        /\ \E k \in 1..Len(lookup_log) :
              /\ lookup_log[k].resource_id = heap[r].members[m].key
              /\ lookup_log[k].type_id = EnumKey(type)
              /\ lookup_log[k].found

\* C16 as stated: group decode resolves each entry through the lookup of
\* its id under RT_ICON (RT_CURSOR) and sets belongs_to_group true on each
\* resolved resource: after materialization every icon and cursor that a
\* decoded group references has belongs_to_group true.
C16_MembersFlagged ==
    Materialized =>
        /\ \A r \in Groups("GroupIcon") :
              /\ ResolvedThrough(r, RT_ICON)
              /\ \A m \in 1..Len(heap[r].members) :
                    heap[heap[r].members[m].value].is_in_group = "True"
        /\ \A r \in Groups("GroupCursor") :
              /\ ResolvedThrough(r, RT_CURSOR)
              /\ \A m \in 1..Len(heap[r].members) :
                    heap[heap[r].members[m].value].is_in_group = "True"

\* C16 amended: group decode resolves each entry through the lookup of its
\* id under RT_ICON (RT_CURSOR); the group-cursor decode sets is_in_group true
\* on each resolved cursor, so that every cursor a decoded group-cursor
\* references has is_in_group true; the group-icon decode sets no flag.
C16_CursorMembersFlagged ==
    ~_resources.is_none =>
        /\ \A r \in Groups("GroupIcon") :
              /\ ResolvedThrough(r, RT_ICON)
              /\ \A m \in 1..Len(heap[r].members) :
                    heap[heap[r].members[m].value].is_in_group = "unset"
        /\ \A r \in Groups("GroupCursor") :
              /\ ResolvedThrough(r, RT_CURSOR)
              /\ Len(heap[r].members) > 0 \/ Len(heap[r].directory_entries) = 0
              /\ \A m \in 1..Len(heap[r].members) :
                    heap[heap[r].members[m].value].is_in_group = "True"

\* the materialization has returned with a group-cursor whose two cursors
\* are flagged
C16_TwoCursorsFlagged ==
    /\ Materialized
    /\ \E r \in Groups("GroupCursor") :
          /\ Len(heap[r].members) = 2
          /\ \A m \in 1..2 :
                /\ heap[heap[r].members[m].value].class = "Cursor"
                /\ heap[heap[r].members[m].value].is_in_group = "True"

----------------------------------------------------------------------------
(* Export                                                                  *)

\* export was called on the object out.ref, of a class
ExportedA(class) == out.op = "export" /\ heap[out.ref].class = class

\* the unsigned little-endian integer in the size bytes of f after offset
UintIn(f, offset, size) ==
    IF size = 2 THEN f[offset + 1] + 256 * f[offset + 2]
    ELSE f[offset + 1] + 256 * f[offset + 2] + 65536 * f[offset + 3]
         + 16777216 * f[offset + 4]

\* C17 as stated: the export of a decoded icon (and likewise of a cursor)
\* whose belongs_to_group is false fails, with the error raised by the call,
\* and writes no file.
C17_UngroupedNotExportable ==
    /\ ExportedA("Icon") /\ heap[out.ref].is_in_group # "True"
          => out.exc # "none" /\ out.files = <<>>
    /\ ExportedA("Cursor") /\ heap[out.ref].is_in_group # "True"
          => out.exc # "none" /\ out.files = <<>>

\* C17 amended: the export of a decoded cursor whose is_in_group is false
\* fails with a ValueError raised by the call and writes no file.
C17_UngroupedCursorNotExportable ==
    ExportedA("Cursor") /\ heap[out.ref].is_in_group = "False"
        => out.exc = "ValueError" /\ out.files = <<>>

\* the export of a cursor that no group references has failed
C17_CursorExportFailed ==
    /\ ExportedA("Cursor")
    /\ heap[out.ref].is_in_group = "False"
    /\ out.exc = "ValueError"

\* the files hold one file f: a 6-byte directory of count 1, one 16-byte
\* entry with the payload's size and the offset 22, then the payload
SingleEntryContainer(files, payload) ==
    /\ Len(files) = 1
    /\ Len(files[1].value) = 6 + 16 + Len(payload)
    /\ UintIn(files[1].value, 4, 2) = 1
    /\ UintIn(files[1].value, 14, 4) = Len(payload)
    /\ UintIn(files[1].value, 18, 4) = 22
    /\ SubSeq(files[1].value, 23, Len(files[1].value)) = payload

GroupPayloads(r) ==
    IF heap[r].class = "GroupCursor"
    THEN [i \in 1..Len(heap[r].directory_entries) |->
            heap[DictGet(heap[r].members,
                         IntKey(heap[r].directory_entries[i].cursor_resource_id))].data]
    ELSE [i \in 1..Len(heap[r].members) |-> heap[heap[r].members[i].value].data]

\* the sum of the lengths of the first i payloads
RECURSIVE LengthOfFirst(_, _)
LengthOfFirst(payloads, i) ==
    IF i = 0 THEN 0 ELSE LengthOfFirst(payloads, i - 1) + Len(payloads[i])

\* f is a container of the payloads: directory, entries, payloads in order
Container(f, payloads) ==
    /\ Len(f) = 6 + 16 * Len(payloads) + LengthOfFirst(payloads, Len(payloads))
    /\ UintIn(f, 4, 2) = Len(payloads)
    /\ \A i \in 1..Len(payloads) :
          /\ UintIn(f, 6 + 16 * (i - 1) + 12, 4)
                = 6 + 16 * Len(payloads) + LengthOfFirst(payloads, i - 1)
          /\ SubSeq(f, UintIn(f, 6 + 16 * (i - 1) + 12, 4) + 1,
                    UintIn(f, 6 + 16 * (i - 1) + 12, 4) + Len(payloads[i])) = payloads[i]

\* C19: the export of a decoded group-icon or group-cursor with n entries
\* gives one container: the directory, n entries, then the n payloads in
\* directory order; the offset of entry i is 6 + 16 * n plus the lengths of
\* the payloads before it, and the file's length is the sum of all of them;
\* for every n >= 1, also when two entries reference the same id.
C19_GroupContainer ==
    (ExportedA("GroupIcon") \/ ExportedA("GroupCursor")) /\ Len(GroupPayloads(out.ref)) >= 1
        => /\ out.exc = "none"
           /\ Len(out.files) = 1
           /\ Container(out.files[1].value, GroupPayloads(out.ref))

\* the same, of the group-cursors whose entries reference different cursors
DistinctGroupCursorContainer ==
    ExportedA("GroupCursor") /\ Len(heap[out.ref].members) = Len(heap[out.ref].directory_entries)
        => /\ out.exc = "none"
           /\ Len(out.files) = 1
           /\ Container(out.files[1].value, GroupPayloads(out.ref))

\* the offset of the pixel data of the drawn bitmap, as a pair of digits in
\* base 2^24
PixelOffsetAsDrawn ==
    LET core == input.dib.shape = "core"
        default == core \/ input.dib.total_palette_colors = 0
        masks == IF core THEN 0
                 ELSE IF input.dib.compression_method = 3 THEN 12
                 ELSE IF input.dib.compression_method = 6 THEN 16 ELSE 0
        small == 14 + (IF core THEN 12 ELSE 40) + masks
                 + (IF default THEN 0 ELSE 4 * input.dib.total_palette_colors)
        e == input.dib.bits_per_pixel + 2
    IN [hi |-> IF default /\ e >= 24 THEN 2 ^ (e - 24) ELSE 0,
        lo |-> small + (IF default /\ e < 24 THEN 2 ^ e ELSE 0)]

\* C20: the file header made for the export of a bitmap has the pixel data
\* offset 14 + header length + bit mask length + palette size and the total
\* length 14 + payload length; the bit mask length is 12 for compression 3,
\* 16 for compression 6, 0 otherwise and always 0 with a legacy header; the
\* palette size is 4 times the declared palette count, or 4 * 2^bits per
\* pixel when the count is zero.
C20_BitmapFileHeader ==
    ExportedA("Bitmap") =>
        /\ bitmap_file_header(heap[out.ref]).pixel_data_start_offset = PixelOffsetAsDrawn
        /\ bitmap_file_header(heap[out.ref]).bitmap_length_in_bytes
              = [hi |-> 0, lo |-> 14 + Len(heap[out.ref].data)]
        /\ PixelOffsetAsDrawn.hi < 256 =>
              /\ out.exc = "none"
              /\ Len(out.files) = 1
              /\ Len(out.files[1].value) = 14 + Len(heap[out.ref].data)
              /\ UintIn(out.files[1].value, 2, 4) = 14 + Len(heap[out.ref].data)
              /\ UintIn(out.files[1].value, 10, 2) + 65536 * out.files[1].value[13]
                    = PixelOffsetAsDrawn.lo
              /\ out.files[1].value[14] = PixelOffsetAsDrawn.hi
              /\ SubSeq(out.files[1].value, 15, Len(out.files[1].value))
                    = heap[out.ref].data

\* a bitmap with bit masks (compression 3) and a palette of 16 colors was
\* exported: its pixel data start at 14 + 40 + 12 + 64
C20_MaskedBitmapExported ==
    /\ ExportedA("Bitmap")
    /\ out.exc = "none"
    /\ heap[out.ref].bitmap_header.compression_method = 3
    /\ heap[out.ref].bitmap_header.total_palette_colors = 16
    /\ Len(out.files) = 1
    /\ UintIn(out.files[1].value, 10, 4) = 130

----------------------------------------------------------------------------
(* String tables                                                           *)

\* the offsets of the length bytes of the slots from the one at acc[1] on,
\* each slot ending where its length byte says, as read off the stream
RECURSIVE SlotStarts(_)
SlotStarts(acc) ==
    IF Len(acc) = 16 THEN acc
    ELSE SlotStarts(Append(acc, acc[Len(acc)] + 1 + stream[acc[Len(acc)] + 1]))

\* slot is what the stream holds at the length byte at offset o: absent for
\* a zero length, else the bytes after the length byte, as many as it says
\* up to the stream's end, as text
SlotAsWritten(slot, o) ==
    IF stream[o + 1] = 0 THEN ~slot.filled
    ELSE /\ slot.filled
         /\ slot.text = SubSeq(stream, o + 2, Min(o + 1 + stream[o + 1], Len(stream)))

\* the decode events of string tables that the StringTable class decoded
StringTables ==
    {k \in 1..Len(decode_log) :
        decode_log[k].class = "StringTable" /\ decode_log[k].parser = "none"}

\* C21: every string table decoded holds exactly 16 slots in the order of the
\* block: slot i holds the text of the bytes after its length byte when that
\* length is not zero and is absent when the length is zero; absent slots
\* are in the list, not left out.
C21_SixteenSlotsInOrder ==
    \A k \in StringTables :
        /\ heap[decode_log[k].stored].class = "StringTable"
        /\ Len(heap[decode_log[k].stored].strings) = 16
        /\ \A i \in 1..16 :
              SlotAsWritten(heap[decode_log[k].stored].strings[i],
                            SlotStarts(<<decode_log[k].data_start_offset>>)[i])

\* a block whose slots 0, 5 and 15 hold a string was decoded: those three
\* slots are filled, the thirteen others absent
C21_ThreeOfSixteenFilled ==
    /\ pc = "ready"
    /\ input.strings.filled = {0, 5, 15}
    /\ input.strings.cut = 0
    /\ \E k \in StringTables :
          /\ Len(heap[decode_log[k].stored].strings) = 16
          /\ {i \in 1..16 : heap[decode_log[k].stored].strings[i].filled} = {1, 6, 16}
          /\ heap[decode_log[k].stored].strings[6].text = <<200, 0, 70>>

----------------------------------------------------------------------------
(* NE(filepath) followed by export_resources                               *)

\* C22: for every file, constructing NE over it and calling export_resources
\* completes: no exception leaves the constructor's table scan and none
\* leaves export_resources (the files here have a valid header, so neither
\* NotValidNewExecutableError nor IsPortableExecutableError is raised).
C22_NothingEscapes ==
    /\ pc # "raised"
    /\ ~(ret.kind = "escape" /\ ret.call.op = "export_resources")

----------------------------------------------------------------------------
(* Dispatch                                                                *)

\* the class the library registers for a type key, "none" without one
BuiltIn(type_code) ==
    CASE type_code = EnumKey(RT_ICON) -> "Icon"
      [] type_code = EnumKey(RT_BITMAP) -> "Bitmap"
      [] type_code = EnumKey(RT_CURSOR) -> "Cursor"
      [] type_code = EnumKey(RT_GROUP_ICON) -> "GroupIcon"
      [] type_code = EnumKey(RT_GROUP_CURSOR) -> "GroupCursor"
      [] type_code = EnumKey(RT_STRING) -> "StringTable"
      [] OTHER -> "none"

\* the class the caller registered for a type key, "none" without one
CallerRegistered(type_code) ==
    IF \E i \in 1..Len(input.user_defined_resource_parsers) :
          input.user_defined_resource_parsers[i].key = type_code
    THEN input.user_defined_resource_parsers[
            CHOOSE i \in 1..Len(input.user_defined_resource_parsers) :
                input.user_defined_resource_parsers[i].key = type_code].value
    ELSE "none"

\* the decoder of a type key: the caller's, else the built-in, else raw data
Routed(type_code) ==
    IF CallerRegistered(type_code) # "none" THEN CallerRegistered(type_code)
    ELSE IF BuiltIn(type_code) # "none" THEN BuiltIn(type_code)
    ELSE "ApplicationDefinedData"

\* C23: every declaration whose data offset could be sought is given to the
\* decoder registered for its type key: the caller's when the caller
\* registered one for the key, also in the place of a built-in one, else the
\* built-in one, else the raw data decoder; the resource stored when that
\* decoder succeeds is of its class.
C23_RoutedToRegistered ==
    \A k \in 1..Len(decode_log) :
        decode_log[k].seek = "none" =>
            /\ decode_log[k].class = Routed(decode_log[k].type_code)
            /\ decode_log[k].parser # "not run"
            /\ decode_log[k].parser = "none" =>
                  heap[decode_log[k].stored].class = Routed(decode_log[k].type_code)

\* with raw data registered for RT_ICON and Icon for the type 100, an icon
\* declaration was stored as raw data and a declaration of type 100 as an icon
C23_CallerOverridesBuiltIn ==
    /\ pc = "ready"
    /\ CallerRegistered(EnumKey(RT_ICON)) = "ApplicationDefinedData"
    /\ \E k \in 1..Len(decode_log) :
          /\ decode_log[k].type_code = EnumKey(RT_ICON)
          /\ decode_log[k].parser = "none"
          /\ heap[decode_log[k].stored].class = "ApplicationDefinedData"
    /\ \E k \in 1..Len(decode_log) :
          /\ decode_log[k].type_code = IntKey(100)
          /\ decode_log[k].parser = "none"
          /\ heap[decode_log[k].stored].class = "Icon"

----------------------------------------------------------------------------
(* The cursor around the decode of the payloads                            *)

\* C24 as stated: the decode of the declarations of a type table, and so the
\* property resources as a whole, leaves the stream's cursor where it was.
C24_CursorRestored ==
    [][(pc \in {"builtin", "other"}) => (pos' = pos)]_vars

\* the last declaration visited
LastEvent == decode_log[Len(decode_log)]

\* C24 amended: the decode of a declaration seeks to the declaration's data
\* offset and does not seek back: once a declaration was decoded the cursor
\* is where the last read for the last declaration ended, between that
\* declaration's data offset and the end of the stream; after a declaration
\* read as raw data, at the data offset plus the declared length or at the
\* end of the stream, whichever comes first.
C24_CursorLeftAfterLastRead ==
    Len(decode_log) > 0 /\ LastEvent.seek = "none" =>
        /\ LastEvent.data_start_offset <= pos
        /\ pos <= Len(stream)
        /\ (/\ LastEvent.stored # 0
            /\ LastEvent.raw \in {"none", "not run"}
            /\ heap[LastEvent.stored].class = "ApplicationDefinedData")
           => pos = Min(LastEvent.data_start_offset + LastEvent.resource_length_in_bytes,
                        Len(stream))

\* resources has returned with the cursor past the end of the table, at the
\* end of the raw data it read last
C24_CursorMovedByDecode ==
    /\ Materialized
    /\ Len(decode_log) > 0
    /\ LastEvent.stored # 0
    /\ heap[LastEvent.stored].class = "ApplicationDefinedData"
    /\ LastEvent.resource_length_in_bytes > 0
    /\ pos = LastEvent.data_start_offset + LastEvent.resource_length_in_bytes
    /\ pos > SentinelAt(input) + 2

----------------------------------------------------------------------------
(* The cache after an exception has left the property resources            *)

\* the dict holds a key for every type table and, under it, every id declared
HoldsWholeTable(d) ==
    \A i \in 1..Len(resource_type_tables) :
        /\ DictHas(d, resource_type_tables[i].key)
        /\ \A k \in 1..Len(resource_type_tables[i].value.resource_declarations) :
              DictHas(DictGet(d, resource_type_tables[i].key),
                      resource_type_tables[i].value.resource_declarations[k].id)

\* C25: the dict that a read of resources returns holds every type table and
\* every declaration of the resource table, also when an exception left an
\* earlier materialization halfway; and no find is answered "no such type"
\* or "no such id" for an id that the table declares under the type.
C25_NoPartialCache ==
    /\ ret.kind = "resources" => HoldsWholeTable(ret.value)
    /\ ret.kind = "raise" => ~Declared(ret.call.resource_id, ret.call.type_id)

----------------------------------------------------------------------------
(* Lookups made while the property resources is in its loops               *)

\* the declarations of a type were visited once at most
VisitedOnce ==
    \A i \in 1..Len(resource_type_tables) :
        Cardinality({k \in 1..Len(decode_log) :
                        decode_log[k].type_code = resource_type_tables[i].key})
            <= Len(resource_type_tables[i].value.resource_declarations)

\* the types whose _parse_resources has returned
Finished ==
    {parsed_types[n] : n \in 1..(IF Aborted THEN Len(parsed_types) - 1
                                 ELSE Len(parsed_types))}

----------------------------------------------------------------------------
(* The result against the entries of the file                              *)

\* the entries the file was written with
Entries == [i \in 1..Len(input.types) |-> (Menu \o DibMenu)[input.types[i]]]

\* C27: once the property resources has returned, the result holds one key
\* for every type-table entry of the file and, under the key of an entry, one
\* resource for every declaration of the entry.
C27_OnePerEntryAndDeclaration ==
    Materialized =>
        /\ Len(_resources.dict) = Len(Entries)
        /\ \A i \in 1..Len(Entries) :
              /\ DictHas(_resources.dict, TypeOf(Entries[i]))
              /\ Len(DictGet(_resources.dict, TypeOf(Entries[i]))) = Len(Entries[i].decls)

----------------------------------------------------------------------------
(* The bytes a resource retains                                            *)

\* data is a run of the stream that lies inside the range of the declaration
\* of the event e
InsideOwnRange(data, e) ==
    \E s \in e.data_start_offset..(e.data_start_offset + e.resource_length_in_bytes) :
        /\ s + Len(data) <= e.data_start_offset + e.resource_length_in_bytes
        /\ data = SubSeq(stream, s + 1, s + Len(data))

\* the events whose resource was built for the event's own declaration
BuiltForOwn ==
    {k \in 1..Len(decode_log) :
        /\ decode_log[k].seek = "none"
        /\ decode_log[k].stored # 0
        /\ ~BothFailed(decode_log[k])}

\* C28: the bytes retained by a decoded resource (raw data, bitmap, icon,
\* cursor) are stream bytes inside its own declaration's range
\* [data_start_offset, data_start_offset + resource_length_in_bytes): no
\* decoder retains bytes past the declared end.
C28_PayloadInsideDeclaration ==
    \A k \in BuiltForOwn :
        heap[decode_log[k].stored].class
              \in {"ApplicationDefinedData", "Bitmap", "Icon", "Cursor"}
           => InsideOwnRange(heap[decode_log[k].stored].data, decode_log[k])

----------------------------------------------------------------------------
(* The flag of the members and the groups of the result                    *)

\* the resources of the dict d
ResultRefs(d) ==
    UNION {{d[i].value[j].value : j \in 1..Len(d[i].value)} : i \in 1..Len(d)}

\* a group of the result holds the object r among its members
InAGroupOfResult(r) ==
    \E g \in ResultRefs(_resources.dict) :
        /\ heap[g].class \in {"GroupCursor", "GroupIcon"}
        /\ \E m \in 1..Len(heap[g].members) : heap[g].members[m].value = r

\* C29: once the property resources has returned, a cursor or an icon is
\* flagged as in a group only if a group resource of the result holds it, so
\* that no cursor is skipped by export without a group writing it.
C29_FlaggedOnlyInsideAGroup ==
    Materialized =>
        \A r \in 1..Len(heap) :
            heap[r].is_in_group = "True" => InAGroupOfResult(r)

----------------------------------------------------------------------------
(* The numbers of the bitmap file header                                   *)

\* a <= b, and a < 2^32, for numbers held as two digits of base 2^24
AtMost(a, b) == a.hi < b.hi \/ (a.hi = b.hi /\ a.lo <= b.lo)
FitsUint32(a) == a.hi < 256

\* C30: for every bitmap decoded and exported, whatever its header shape, its
\* bits per pixel and its declared palette color count, the pixel data
\* offset of the file header is not larger than the total file length of the
\* header, both fit an unsigned 32-bit field, and the export raises nothing.
C30_FileHeaderNumbersFit ==
    ExportedA("Bitmap") =>
        /\ AtMost(bitmap_file_header(heap[out.ref]).pixel_data_start_offset,
                  bitmap_file_header(heap[out.ref]).bitmap_length_in_bytes)
        /\ FitsUint32(bitmap_file_header(heap[out.ref]).pixel_data_start_offset)
        /\ FitsUint32(bitmap_file_header(heap[out.ref]).bitmap_length_in_bytes)
        /\ out.exc = "none"

====
